---- MODULE Spec2Model ----
(***************************************************************************)
(* A model of the tajweed rule-detection and scoring engine of             *)
(* backend/app/services/tajweed.py.                                        *)
(*                                                                         *)
(* Representation.                                                         *)
(*   - An Arabic code point is a string naming it ("qaf" is U+0642, "damma" *)
(*     is U+064F, ...); a word is a sequence of code points; a text is a   *)
(*     sequence of code points in which " " is the space.                  *)
(*   - A Python dict is a function whose DOMAIN is its key set; dict.get   *)
(*     is Get.  Python's None is None, NoneWord or NoneNumber, by the kind *)
(*     of value it stands in for.                                          *)
(*   - Times are integer milliseconds.  The sample rate is 16 samples per  *)
(*     millisecond (16 kHz).                                               *)
(*   - A score is an integer number of hundredths (100 is 1.0); a penalty  *)
(*     is an integer number of ten-thousandths (1500 is 0.15).             *)
(*   - A confidence is an integer number of hundredths (75 is 0.75).       *)
(*   - A call that raises returns [raised |-> TRUE, ...].                  *)
(*   - An easiness factor is an integer number of hundredths (250 is 2.5). *)
(*     The float the code holds differs from that decimal by a rounding    *)
(*     error, which shows in math.ceil(interval * new_ef) when the decimal *)
(*     product is a whole number: the float product is then that number or *)
(*     just above it, and both outcomes are possible.                      *)
(***************************************************************************)
EXTENDS Integers, Sequences, FiniteSets, TLC

VARIABLES
    audio_path,     \* what librosa finds behind the path: capability and audio
    matched_ayah,   \* the matched ayah: [surah, ayah, text]
    segments,       \* ASR segments, each [words |-> <<word_info, ...>>]
    ret,            \* the outcome of the last call: [fn, raised, value]
    errors,         \* scorer: the error list handed to calculate_score
    word_count,     \* scorer: the expected word count handed to calculate_score
    score,          \* scorer: what calculate_score returned for them
    text1,          \* phoneme_utils, alignment: the first (or only) text argument
    text2,          \* phoneme_utils, alignment: the second text argument
    phonemes1,      \* phoneme_levenshtein: the first phoneme list
    phonemes2,      \* phoneme_levenshtein: the second phoneme list
    settings,       \* config.py: the Settings instance, thresholds in milliseconds
    calls,          \* the detector calls made so far: <<[fn, errors], ...>>
    request,        \* the request or call being served: its arguments
    practice_items_db,  \* spaced_repetition.py: item_id -> item
    user_queues_db,     \* spaced_repetition.py: user_id -> list of item_ids
    users_db,       \* auth.py: user_id -> user
    uuids           \* the number of uuid4 values drawn so far

vars == <<audio_path, matched_ayah, segments, ret, errors, word_count, score,
          text1, text2, phonemes1, phonemes2, settings, calls, request,
          practice_items_db, user_queues_db, users_db, uuids>>

analysis_vars == <<audio_path, matched_ayah, segments, ret>>
scorer_vars == <<errors, word_count, score>>
text_vars == <<text1, text2, phonemes1, phonemes2>>
practice_vars == <<practice_items_db, user_queues_db>>
service_vars == <<settings, calls, request, practice_vars, users_db, uuids>>

None == "None"             \* None where a string is expected
NoneWord == <<"None">>     \* None where a word or another sequence is expected
NoneNumber == 0 - 999999   \* None where a number is expected

(***************************************************************************)
(* Bounds of the model.                                                    *)
(***************************************************************************)
MaxExpectedWords == 2
MaxTranscribedWords == 2
MaxErrors == 7
MaxWordCount == 2

(***************************************************************************)
(* Generic helpers.                                                        *)
(***************************************************************************)
Get(d, k, default) == IF k \in DOMAIN d THEN d[k] ELSE default

Min(a, b) == IF a <= b THEN a ELSE b
Max(a, b) == IF a >= b THEN a ELSE b

RECURSIVE SeqsUpTo(_, _)
SeqsUpTo(S, n) ==
    IF n = 0 THEN {<<>>}
    ELSE LET shorter == SeqsUpTo(S, n - 1)
         IN  shorter \cup {Append(s, x) : s \in {t \in shorter : Len(t) = n - 1}, x \in S}

RECURSIVE Flatten(_)
Flatten(ss) == IF ss = <<>> THEN <<>> ELSE Head(ss) \o Flatten(Tail(ss))

(***************************************************************************)
(* tajweed.py: letter classes and tables.                                  *)
(***************************************************************************)
MADD_LETTERS == {"alef", "waw", "yeh", "alef_maksura"}
GHUNNAH_LETTERS_noon_only == {"noon"}
GHUNNAH_LETTERS == {"noon", "meem"}
QALQALAH_LETTERS == {"qaf", "tah", "beh", "jeem", "dal"}

SIMILAR_LETTERS ==
    [c \in {"qaf", "tah", "sad", "dad", "zah", "ain", "hah", "thal", "theh"} |->
        CASE c = "qaf"  -> <<"kaf", "ghain">>
          [] c = "tah"  -> <<"teh", "dal">>
          [] c = "sad"  -> <<"seen", "zain">>
          [] c = "dad"  -> <<"dal", "zah">>
          [] c = "zah"  -> <<"thal", "dad">>
          [] c = "ain"  -> <<"alef", "hamza">>
          [] c = "hah"  -> <<"heh", "khah">>
          [] c = "thal" -> <<"zain", "zah">>
          [] c = "theh" -> <<"seen", "teh">>]

LETTER_TIPS ==
    [c \in {"qaf", "tah", "sad", "dad", "zah", "ain", "hah"} |-> <<"tip", c>>]

SHADDA == "shadda"
SUKUN == "sukun"

\* U+064B..U+0655 and U+0670
is_diacritic(char) ==
    char \in {"fathatan", "dammatan", "kasratan", "fatha", "damma", "kasra",
              "shadda", "sukun", "maddah", "hamza_above", "hamza_below",
              "superscript_alef"}

get_correction_url(letter) ==
    LET letter_mapping ==
            [c \in {"qaf", "tah", "sad", "dad", "zah", "ain", "hah"} |->
                CASE c = "qaf" -> "qa_01"
                  [] c = "tah" -> "ta_emphatic_01"
                  [] c = "sad" -> "sad_01"
                  [] c = "dad" -> "dad_01"
                  [] c = "zah" -> "dha_emphatic_01"
                  [] c = "ain" -> "ayn_01"
                  [] c = "hah" -> "ha_01"]
        correction_id == Get(letter_mapping, letter, "generic")
    IN  <<"/api/v1/correction/audio/", correction_id>>

\* class TajweedErrorType(str, Enum): the eleven values
TajweedErrorType ==
    {"substituted_letter", "missing_word", "madd_short", "madd_long", "ghunnah_missing",
     "ghunnah_short", "qalqalah_missing", "qalqalah_weak", "idgham_missing",
     "ikhfa_missing", "iqlab_missing"}

\* A TajweedError built without word_index, which then keeps its default None.
TajweedError_without_word_index(type, letter, expected, detected, start_time, end_time, confidence, suggestion, correction_audio_url, word_index, severity) ==
    [type |-> type, letter |-> letter, expected |-> expected, detected |-> detected,
     start_time |-> start_time, end_time |-> end_time, confidence |-> confidence,
     suggestion |-> suggestion, correction_audio_url |-> correction_audio_url,
     word_index |-> NoneNumber, severity |-> severity]

\* The dataclass TajweedError; the suggestion is the template's key and arguments.
TajweedError(type, letter, expected, detected, start_time, end_time, confidence, suggestion, correction_audio_url, word_index, severity) ==
    [type |-> type, letter |-> letter, expected |-> expected, detected |-> detected,
     start_time |-> start_time, end_time |-> end_time, confidence |-> confidence,
     suggestion |-> suggestion, correction_audio_url |-> correction_audio_url,
     word_index |-> word_index, severity |-> severity]

(***************************************************************************)
(* tajweed.py: calculate_score.                                            *)
(***************************************************************************)
WEIGHT_HIGH == 1500
WEIGHT_MEDIUM == 800
WEIGHT_LOW == 300
WEIGHT_DEFAULT == 800
ONE == 10000

\* severity_weights.get(e.severity, 0.08)
severity_weight_forgetting_default(severity) ==
    LET severity_weights ==
            [s \in {"high", "medium", "low"} |->
                CASE s = "high" -> WEIGHT_HIGH
                  [] s = "medium" -> WEIGHT_MEDIUM
                  [] s = "low" -> WEIGHT_LOW]
    IN  Get(severity_weights, severity, 0)

severity_weight_rewarding_low(severity) ==
    LET severity_weights ==
            [s \in {"high", "medium", "low"} |->
                CASE s = "high" -> WEIGHT_HIGH
                  [] s = "medium" -> WEIGHT_MEDIUM
                  [] s = "low" -> 0 - WEIGHT_LOW]
    IN  Get(severity_weights, severity, WEIGHT_DEFAULT)

severity_weight(severity) ==
    LET severity_weights ==
            [s \in {"high", "medium", "low"} |->
                CASE s = "high" -> WEIGHT_HIGH
                  [] s = "medium" -> WEIGHT_MEDIUM
                  [] s = "low" -> WEIGHT_LOW]
    IN  Get(severity_weights, severity, WEIGHT_DEFAULT)

\* sum(severity_weights.get(e.severity, 0.08) for e in errors)
RECURSIVE total_penalty(_)
total_penalty(errs) ==
    IF errs = <<>> THEN 0
    ELSE severity_weight(Head(errs).severity) + total_penalty(Tail(errs))

\* round(x, 2): x in ten-thousandths, the result in hundredths, ties to even
round2(x) ==
    LET q == x \div 100
        r == x % 100
    IN  IF r > 50 \/ (r = 50 /\ q % 2 = 1) THEN q + 1 ELSE q

calculate_score_without_zero_guard(errs, n) ==
    round2(Max(0, Min(ONE, ONE - total_penalty(errs))))

calculate_score(errs, n) ==
    IF n = 0 THEN 0
    ELSE round2(Max(0, Min(ONE, ONE - total_penalty(errs))))

(***************************************************************************)
(* The scorer on its own: calculate_score applied to a growing error list. *)
(***************************************************************************)
Severities == {"high", "medium", "low", "critical"}

ScoredError(severity) ==
    TajweedError("substituted_letter", "qaf", <<"qaf">>, <<"kaf">>, 0, 500, 80,
                 <<"Test">>, <<>>, NoneNumber, severity)

NoCall == [fn |-> "none", raised |-> FALSE, value |-> [raised |-> FALSE]]

\* no text and no phoneme list is under comparison
NoTexts == text1 = <<>> /\ text2 = <<>> /\ phonemes1 = <<>> /\ phonemes2 = <<>>

\* class Settings: the tajweed thresholds, none overridden by the environment
DefaultSettings ==
    [MADD_SHORT_THRESHOLD |-> 50, MADD_NORMAL_MIN |-> 180, MADD_NORMAL_MAX |-> 250,
     GHUNNAH_MIN_DURATION |-> 120, CONFIDENCE_THRESHOLD |-> 60]

NoRequest == [endpoint |-> "none"]

\* practice_items_db = {}, user_queues_db = {}
NoPractice == practice_items_db = <<>> /\ user_queues_db = <<>>

\* the stores as imported, nothing called or served
NoStores ==
    /\ calls = <<>>
    /\ request = NoRequest
    /\ NoPractice
    /\ users_db = <<>>
    /\ uuids = 0

\* the modules as imported: default settings, empty stores
NoService == settings = DefaultSettings /\ NoStores

InitScore ==
    /\ errors = <<>>
    /\ word_count \in 0..MaxWordCount
    /\ score = calculate_score(errors, word_count)
    /\ audio_path = [librosa |-> "missing"]
    /\ matched_ayah = [surah |-> 1, ayah |-> 1, text |-> <<>>]
    /\ segments = <<>>
    /\ ret = NoCall
    /\ NoTexts
    /\ NoService

\* calculate_score(errors + [e], word_count)
ScoreWithError(severity) ==
    /\ Len(errors) < MaxErrors
    /\ errors' = Append(errors, ScoredError(severity))
    /\ score' = calculate_score(errors', word_count)
    /\ UNCHANGED <<word_count, analysis_vars, text_vars, service_vars>>

NextScore == \E severity \in Severities : ScoreWithError(severity)

SpecScore == InitScore /\ [][NextScore]_vars

(***************************************************************************)
(* Inputs of an analysis request.                                          *)
(***************************************************************************)
\* U+0642 U+064F U+0644 U+0652; U+0645 U+0650 U+0646 U+0652; U+0645 U+064E U+0627;
\* U+0642 U+0637
ExpectedVocabulary ==
    {<<"qaf", "damma", "lam", "sukun">>, <<"meem", "kasra", "noon", "sukun">>,
     <<"meem", "fatha", "alef">>, <<"qaf", "tah">>}

\* U+0643 U+064F U+0644 U+0652; U+0643 U+062A; U+0642 U+0637
TranscribedVocabulary ==
    {<<"kaf", "damma", "lam", "sukun">>, <<"kaf", "teh">>, <<"qaf", "tah">>}

WordDurationsMs == {600}

RECURSIVE join(_)
join(words) ==
    IF words = <<>> THEN <<>>
    ELSE IF Len(words) = 1 THEN Head(words)
    ELSE Head(words) \o <<" ">> \o join(Tail(words))

\* Texts of up to MaxExpectedWords words, the blank text, and padded texts.
ExpectedTexts ==
    {join(ws) : ws \in SeqsUpTo(ExpectedVocabulary, MaxExpectedWords)}
    \cup {<<" ">>}
    \cup {<<" ">> \o w \o <<" ", " ">> : w \in ExpectedVocabulary}

\* What a word_info dict can look like: well formed, without the word and time
\* keys, with a null word, or with null times.
WordShapes ==
    [kind : {"timed"}, word : TranscribedVocabulary]
    \cup [kind : {"bare", "word_none", "time_none"}, word : {<<"kaf", "teh">>}]

WordInfo(shape, i, d) ==
    CASE shape.kind = "timed" ->
            [word |-> shape.word, start |-> (i - 1) * d, end |-> i * d]
      [] shape.kind = "bare" -> [probability |-> 95]
      [] shape.kind = "word_none" ->
            [word |-> NoneWord, start |-> (i - 1) * d, end |-> i * d]
      [] shape.kind = "time_none" ->
            [word |-> shape.word, start |-> NoneNumber, end |-> NoneNumber]

WordsPerSegment == 2

\* The word_infos grouped into segments of WordsPerSegment words.
RECURSIVE Segmented(_)
Segmented(infos) ==
    IF infos = <<>> THEN <<>>
    ELSE IF Len(infos) <= WordsPerSegment THEN <<[words |-> infos]>>
    ELSE <<[words |-> SubSeq(infos, 1, WordsPerSegment)]>>
         \o Segmented(SubSeq(infos, WordsPerSegment + 1, Len(infos)))

SegmentLists ==
    {Segmented([i \in 1..Len(shapes) |-> WordInfo(shapes[i], i, d)]) :
        shapes \in SeqsUpTo(WordShapes, MaxTranscribedWords), d \in WordDurationsMs}
    \cup {<<[text |-> "untimed", start |-> 0, end |-> 500]>>}

(***************************************************************************)
(* tajweed.py: the text detectors.                                         *)
(***************************************************************************)
\* str.split(): the maximal runs of non-space code points
RECURSIVE split_acc(_, _, _)
split_acc(rest, cur, acc) ==
    IF rest = <<>> THEN (IF cur = <<>> THEN acc ELSE Append(acc, cur))
    ELSE IF Head(rest) = " "
         THEN split_acc(Tail(rest), <<>>, IF cur = <<>> THEN acc ELSE Append(acc, cur))
         ELSE split_acc(Tail(rest), Append(cur, Head(rest)), acc)

split(text) == split_acc(text, <<>>, <<>>)

InList(x, list) == \E k \in 1..Len(list) : list[k] = x

Raised(kind) == [raised |-> TRUE, errors |-> <<>>, log |-> kind]
Returned(errs, log) == [raised |-> FALSE, errors |-> errs, log |-> log]

\* [w.get("word", "") for w in transcribed_words]
transcribed_texts_of(transcribed_words) ==
    [i \in 1..Len(transcribed_words) |-> Get(transcribed_words[i], "word", <<>>)]

RECURSIVE substitutions_in_word_ignoring_table(_, _, _, _, _)
substitutions_in_word_ignoring_table(expected_word, transcribed, word_info, i, j) ==
    IF j > Min(Len(expected_word), Len(transcribed)) THEN <<>>
    ELSE LET exp_char == expected_word[j]
             trans_char == transcribed[j]
             rest == substitutions_in_word_ignoring_table(expected_word, transcribed, word_info, i, j + 1)
         IN  IF is_diacritic(exp_char) \/ is_diacritic(trans_char) THEN rest
             ELSE IF exp_char # trans_char
             THEN <<TajweedError("substituted_letter", exp_char, <<exp_char>>, <<trans_char>>,
                                 Get(word_info, "start", 0), Get(word_info, "end", 0), 75,
                                 <<"substituted_letter", exp_char, trans_char,
                                   Get(LETTER_TIPS, exp_char,
                                       <<"Practice this letter carefully.">>)>>,
                                 get_correction_url(exp_char), i - 1, "high")>> \o rest
             ELSE rest

\* The inner loop of detect_substituted_letters over zip(expected_word, transcribed),
\* from position j on.  Indices are 1-based here, word_index is 0-based as in Python.
RECURSIVE substitutions_in_word(_, _, _, _, _)
substitutions_in_word(expected_word, transcribed, word_info, i, j) ==
    IF j > Min(Len(expected_word), Len(transcribed)) THEN <<>>
    ELSE LET exp_char == expected_word[j]
             trans_char == transcribed[j]
             rest == substitutions_in_word(expected_word, transcribed, word_info, i, j + 1)
         IN  IF is_diacritic(exp_char) \/ is_diacritic(trans_char) THEN rest
             ELSE IF exp_char # trans_char
                     /\ exp_char \in DOMAIN SIMILAR_LETTERS
                     /\ InList(trans_char, Get(SIMILAR_LETTERS, exp_char, <<>>))
             THEN <<TajweedError("substituted_letter", exp_char, <<exp_char>>, <<trans_char>>,
                                 Get(word_info, "start", 0), Get(word_info, "end", 0), 75,
                                 <<"substituted_letter", exp_char, trans_char,
                                   Get(LETTER_TIPS, exp_char,
                                       <<"Practice this letter carefully.">>)>>,
                                 get_correction_url(exp_char), i - 1, "high")>> \o rest
             ELSE rest

\* The outer loop from expected word i on; zip over a null word raises TypeError.
RECURSIVE substitution_scan(_, _, _, _)
substitution_scan(transcribed_words, expected_words, i, acc) ==
    LET transcribed_texts == transcribed_texts_of(transcribed_words)
    IN  IF i > Len(expected_words) THEN Returned(acc, "none")
        ELSE IF i > Len(transcribed_texts)
        THEN substitution_scan(transcribed_words, expected_words, i + 1, acc)
        ELSE IF transcribed_texts[i] = NoneWord THEN Raised("TypeError")
        ELSE substitution_scan(transcribed_words, expected_words, i + 1,
                acc \o substitutions_in_word(expected_words[i], transcribed_texts[i],
                                             transcribed_words[i], i, 1))

detect_substituted_letters(transcribed_words, expected_words, segs) ==
    substitution_scan(transcribed_words, expected_words, 1, <<>>)

detect_missing_words_from_next_index(transcribed_words, expected_words, segs) ==
    LET transcribed_texts == transcribed_texts_of(transcribed_words)
    IN  IF Len(expected_words) > Len(transcribed_texts) + 1
        THEN Returned([k \in 1..(Len(expected_words) - Len(transcribed_texts) - 1) |->
                        LET i == Len(transcribed_texts) + 1 + k
                        IN  TajweedError("missing_word", None, expected_words[i], NoneWord,
                                         0, 0, 80, <<"missing_word", expected_words[i]>>,
                                         <<>>, i - 1, "high")],
                      "none")
        ELSE Returned(<<>>, "none")

detect_missing_words(transcribed_words, expected_words, segs) ==
    LET transcribed_texts == transcribed_texts_of(transcribed_words)
    IN  IF Len(expected_words) > Len(transcribed_texts)
        THEN Returned([k \in 1..(Len(expected_words) - Len(transcribed_texts)) |->
                        LET i == Len(transcribed_texts) + k
                        IN  TajweedError("missing_word", None, expected_words[i], NoneWord,
                                         0, 0, 80, <<"missing_word", expected_words[i]>>,
                                         <<>>, i - 1, "high")],
                      "none")
        ELSE Returned(<<>>, "none")

(***************************************************************************)
(* The audio behind audio_path, as librosa sees it.  librosa is an         *)
(* external library: what it measures on a window is a property of the     *)
(* recording, given here by the share of frames that are voiced, the       *)
(* nasal-band share of the spectral energy and the burst figures.          *)
(***************************************************************************)
Recording(samples, madd_voiced_pct, ghunnah_voiced_pct, nasal_pct, burst_x10, onset_x10, peak_x100) ==
    [librosa |-> "ok", samples |-> samples, madd_voiced_pct |-> madd_voiced_pct,
     ghunnah_voiced_pct |-> ghunnah_voiced_pct, nasal_pct |-> nasal_pct,
     total_energy |-> 1, burst_x10 |-> burst_x10, onset_x10 |-> onset_x10,
     peak_x100 |-> peak_x100]

AudioPaths ==
    {[librosa |-> "missing"], [librosa |-> "load_fails"]}
    \cup UNION {{Recording(16 * d * MaxTranscribedWords, 100, 100, 50, 20, 30, 50),  \* clean
                 Recording(16 * d * MaxTranscribedWords, 25, 30, 10, 10, 10, 50),    \* flawed
                 Recording(16 * d * MaxTranscribedWords, 50, 30, 40, 20, 30, 5),     \* weak
                 Recording(16 * d, 25, 30, 10, 10, 10, 50)}                          \* cut short
                : d \in WordDurationsMs}

(***************************************************************************)
(* tajweed.py: the acoustic detectors.                                     *)
(***************************************************************************)
SR == 16
MADD_NORMAL_MIN == 180
MADD_NORMAL_MAX == 500
MADD_SHORT_THRESHOLD_at_normal_min == MADD_NORMAL_MIN
MADD_SHORT_THRESHOLD == 150
MADD_LONG_THRESHOLD == 600
GHUNNAH_MIN_DURATION == 120
GHUNNAH_NASAL_RATIO_THRESHOLD == 30
GHUNNAH_WINDOW == 300
QALQALAH_BURST_THRESHOLD == 15
QALQALAH_ONSET_THRESHOLD == 20
QALQALAH_MIN_ENERGY == 10
QALQALAH_WINDOW == 150
QALQALAH_MIN_SAMPLES == 256
RMS_HOP == 64
QALQALAH_RMS_HOP == 32

\* The word_timings list every acoustic detector builds from the segments.
word_timings_of(segs) ==
    LET infos == Flatten([k \in 1..Len(segs) |-> Get(segs[k], "words", <<>>)])
    IN  [i \in 1..Len(infos) |->
            [word |-> Get(infos[i], "word", <<>>), start |-> Get(infos[i], "start", 0),
             end |-> Get(infos[i], "end", 0)]]

\* len(librosa.feature.rms(y=..., hop_length=hop)[0]) for n samples (centered frames)
rms_frames(n, hop) == 1 + (n \div hop)

\* (np.sum(rms > threshold) * 64) / sr, in milliseconds
voiced_duration(n, voiced_pct) ==
    (((rms_frames(n, RMS_HOP) * voiced_pct) \div 100) * RMS_HOP) \div SR

\* f"{duration:.2f}s": hundredths of a second
format_duration(duration) == <<"s", (duration + 5) \div 10>>

\* if word_idx < len(word_timings): word_info = word_timings[word_idx]
word_info_at_or_last(word_timings, word_idx) ==
    IF word_timings = <<>> THEN [available |-> FALSE]
    ELSE [available |-> TRUE, info |-> word_timings[Min(word_idx + 1, Len(word_timings))]]

word_info_at(word_timings, word_idx) ==
    IF word_idx < Len(word_timings)
    THEN [available |-> TRUE, info |-> word_timings[word_idx + 1]]
    ELSE [available |-> FALSE]

Nothing == [raised |-> FALSE, errors |-> <<>>]
One(error) == [raised |-> FALSE, errors |-> <<error>>]
Failure == [raised |-> TRUE, errors |-> <<>>]

\* The body of detect_madd_errors' loops for one character (0-based indices).
madd_at(word, word_idx, char_idx, word_timings, y) ==
    LET char == word[char_idx + 1]
    IN  IF char \notin MADD_LETTERS THEN Nothing
        ELSE IF ~word_info_at(word_timings, word_idx).available THEN Nothing
        ELSE LET word_info == word_info_at(word_timings, word_idx).info
                 start_time == word_info.start
                 end_time == word_info.end
             IN  IF start_time = NoneNumber \/ end_time = NoneNumber THEN Failure
                 ELSE LET word_duration == end_time - start_time
                          madd_start == start_time + ((word_duration * char_idx) \div Len(word))
                          madd_end == madd_start + (word_duration \div Len(word))
                          start_sample ==
                              ((start_time * Len(word) + word_duration * char_idx) * SR)
                                  \div Len(word)
                          end_sample ==
                              ((start_time * Len(word) + word_duration * (char_idx + 1)) * SR)
                                  \div Len(word)
                          duration == voiced_duration(end_sample - start_sample,
                                                      y.madd_voiced_pct)
                      IN  IF ~(word_duration > 0 /\ Len(word) > 0) THEN Nothing
                          ELSE IF ~(start_sample < y.samples /\ end_sample <= y.samples)
                          THEN Nothing
                          ELSE IF ~(end_sample - start_sample > 0) THEN Nothing
                          ELSE IF duration < MADD_SHORT_THRESHOLD
                          THEN One(TajweedError("madd_short", char,
                                      <<"range", MADD_NORMAL_MIN, MADD_NORMAL_MAX>>,
                                      format_duration(duration), madd_start, madd_end, 75,
                                      <<"madd_short", "2-4">>,
                                      <<"/api/v1/correction/audio/", "madd_example">>,
                                      word_idx, "medium"))
                          ELSE IF duration > MADD_LONG_THRESHOLD
                          THEN One(TajweedError("madd_long", char,
                                      <<"range", MADD_NORMAL_MIN, MADD_NORMAL_MAX>>,
                                      format_duration(duration), madd_start, madd_end, 70,
                                      <<"madd_long">>,
                                      <<"/api/v1/correction/audio/", "madd_example">>,
                                      word_idx, "low"))
                          ELSE Nothing

\* The body of detect_ghunnah_errors' loops for one character.
ghunnah_at(word, word_idx, char_idx, word_timings, y) ==
    LET char == word[char_idx + 1]
        requires_ghunnah ==
            /\ char \in GHUNNAH_LETTERS
            /\ \/ (char_idx + 1 < Len(word) /\ word[char_idx + 2] = SHADDA)
               \/ char_idx = Len(word) - 1
               \/ (char_idx + 1 < Len(word) /\ word[char_idx + 2] = SUKUN)
    IN  IF ~(requires_ghunnah /\ word_info_at(word_timings, word_idx).available) THEN Nothing
        ELSE LET word_info == word_info_at(word_timings, word_idx).info
                 start_time == word_info.start
                 end_time == word_info.end
             IN  IF start_time = NoneNumber \/ end_time = NoneNumber THEN Failure
                 ELSE LET word_duration == end_time - start_time
                          ghunnah_start == start_time + ((word_duration * char_idx) \div Len(word))
                          ghunnah_end == Min(ghunnah_start + GHUNNAH_WINDOW, end_time)
                          start_sample ==
                              ((start_time * Len(word) + word_duration * char_idx) * SR)
                                  \div Len(word)
                          end_sample ==
                              Min(((start_time * Len(word) + word_duration * char_idx
                                    + GHUNNAH_WINDOW * Len(word)) * SR) \div Len(word),
                                  end_time * SR)
                          nasal_ratio == y.nasal_pct
                          duration == voiced_duration(end_sample - start_sample,
                                                      y.ghunnah_voiced_pct)
                      IN  IF ~(word_duration > 0 /\ Len(word) > 0) THEN Nothing
                          ELSE IF ~(start_sample < y.samples /\ end_sample <= y.samples)
                          THEN Nothing
                          ELSE IF ~(end_sample - start_sample > 0) THEN Nothing
                          ELSE IF ~(y.total_energy > 0) THEN Nothing
                          ELSE IF nasal_ratio < GHUNNAH_NASAL_RATIO_THRESHOLD
                          THEN One(TajweedError("ghunnah_missing", char, <<"nasalization">>,
                                      <<"no nasalization">>, ghunnah_start, ghunnah_end, 70,
                                      <<"ghunnah_missing", char>>,
                                      <<"/api/v1/correction/audio/", "ghunnah_example">>,
                                      word_idx, "medium"))
                          ELSE IF duration < GHUNNAH_MIN_DURATION
                          THEN One(TajweedError("ghunnah_short", char,
                                      <<">=", GHUNNAH_MIN_DURATION>>,
                                      format_duration(duration), ghunnah_start, ghunnah_end,
                                      65, <<"ghunnah_short">>,
                                      <<"/api/v1/correction/audio/", "ghunnah_example">>,
                                      word_idx, "low"))
                          ELSE Nothing

\* The body of detect_qalqalah_errors' loops for one character.
qalqalah_at(word, word_idx, char_idx, word_timings, y) ==
    LET char == word[char_idx + 1]
        requires_qalqalah ==
            /\ char \in QALQALAH_LETTERS
            /\ \/ char_idx = Len(word) - 1
               \/ (char_idx + 1 < Len(word) /\ word[char_idx + 2] = SUKUN)
               \/ (char_idx + 1 < Len(word) /\ ~is_diacritic(word[char_idx + 2]))
    IN  IF ~(requires_qalqalah /\ word_info_at(word_timings, word_idx).available) THEN Nothing
        ELSE LET word_info == word_info_at(word_timings, word_idx).info
                 start_time == word_info.start
                 end_time == word_info.end
             IN  IF start_time = NoneNumber \/ end_time = NoneNumber THEN Failure
                 ELSE LET word_duration == end_time - start_time
                          qalqalah_start == start_time + ((word_duration * char_idx) \div Len(word))
                          qalqalah_end == Min(qalqalah_start + QALQALAH_WINDOW, end_time)
                          start_sample ==
                              ((start_time * Len(word) + word_duration * char_idx) * SR)
                                  \div Len(word)
                          end_sample ==
                              Min(((start_time * Len(word) + word_duration * char_idx
                                    + QALQALAH_WINDOW * Len(word)) * SR) \div Len(word),
                                  end_time * SR)
                          burst_ratio == y.burst_x10
                          onset_ratio == y.onset_x10
                          peak_energy == y.peak_x100
                      IN  IF ~(word_duration > 0 /\ Len(word) > 0) THEN Nothing
                          ELSE IF ~(start_sample < y.samples /\ end_sample <= y.samples)
                          THEN Nothing
                          ELSE IF ~(end_sample - start_sample > QALQALAH_MIN_SAMPLES)
                          THEN Nothing
                          ELSE IF ~(rms_frames(end_sample - start_sample, QALQALAH_RMS_HOP) > 2)
                          THEN Nothing
                          ELSE IF burst_ratio < QALQALAH_BURST_THRESHOLD
                                  /\ onset_ratio < QALQALAH_ONSET_THRESHOLD
                          THEN One(TajweedError("qalqalah_missing", char, <<"echoing bounce">>,
                                      <<"no bounce detected">>, qalqalah_start, qalqalah_end, 65,
                                      <<"qalqalah_missing", char>>,
                                      <<"/api/v1/correction/audio/", "qalqalah_example">>,
                                      word_idx, "medium"))
                          ELSE IF peak_energy < QALQALAH_MIN_ENERGY
                          THEN One(TajweedError("qalqalah_weak", char, <<"strong bounce">>,
                                      <<"weak bounce">>, qalqalah_start, qalqalah_end, 60,
                                      <<"qalqalah_weak", char>>,
                                      <<"/api/v1/correction/audio/", "qalqalah_example">>,
                                      word_idx, "low"))
                          ELSE Nothing

rule_at(rule, word, word_idx, char_idx, word_timings, y) ==
    CASE rule = "madd" -> madd_at(word, word_idx, char_idx, word_timings, y)
      [] rule = "ghunnah" -> ghunnah_at(word, word_idx, char_idx, word_timings, y)
      [] rule = "qalqalah" -> qalqalah_at(word, word_idx, char_idx, word_timings, y)

\* The two nested loops of an acoustic detector from (word_idx, char_idx) on: an
\* exception leaves the loops with the errors appended so far still in the list.
RECURSIVE acoustic_scan(_, _, _, _, _, _, _)
acoustic_scan(rule, expected_words, word_timings, y, word_idx, char_idx, acc) ==
    IF word_idx >= Len(expected_words) THEN [raised |-> FALSE, errors |-> acc]
    ELSE IF char_idx >= Len(expected_words[word_idx + 1])
    THEN acoustic_scan(rule, expected_words, word_timings, y, word_idx + 1, 0, acc)
    ELSE LET found == rule_at(rule, expected_words[word_idx + 1], word_idx, char_idx,
                              word_timings, y)
         IN  IF found.raised THEN [raised |-> TRUE, errors |-> acc]
             ELSE acoustic_scan(rule, expected_words, word_timings, y, word_idx, char_idx + 1,
                                acc \o found.errors)

\* try: import librosa; y, sr = librosa.load(...); <loops>
\* except ImportError: warning / except Exception: error; return errors
acoustic_detector(rule, path, expected_text, segs) ==
    IF path.librosa = "missing" THEN Returned(<<>>, "warning")
    ELSE IF path.librosa = "load_fails" THEN Returned(<<>>, "error")
    ELSE LET scan == acoustic_scan(rule, split(expected_text), word_timings_of(segs), path,
                                   0, 0, <<>>)
         IN  Returned(scan.errors, IF scan.raised THEN "error" ELSE "none")

\* detect_madd_errors keeping what it found in a module-level list and
\* analysing the audio on its first call only
detect_madd_errors_analysing_once(path, expected_text, segs) ==
    IF \E k \in 1..Len(calls) : calls[k].fn = "detect_madd_errors"
    THEN Returned(<<>>, "none")
    ELSE acoustic_detector("madd", path, expected_text, segs)

detect_madd_errors(path, expected_text, segs) ==
    acoustic_detector("madd", path, expected_text, segs)

detect_ghunnah_errors(path, expected_text, segs) ==
    acoustic_detector("ghunnah", path, expected_text, segs)

detect_qalqalah_errors(path, expected_text, segs) ==
    acoustic_detector("qalqalah", path, expected_text, segs)

(***************************************************************************)
(* tajweed.py: recommendation and serialisation.                           *)
(***************************************************************************)
BAND_EXCELLENT == 95
BAND_VERY_GOOD == 85
BAND_GOOD == 70
BAND_NEEDS_PRACTICE == 50
MOST_COMMON == 3

\* "Excellent recitation! Keep up the great work."
MSG_EXCELLENT ==
    <<"E", "x", "c", "e", "l", "l", "e", "n", "t", " ", "r", "e", "c", "i", "t", "a",
      "t", "i", "o", "n", "!", " ", "K", "e", "e", "p", " ", "u", "p", " ", "t", "h",
      "e", " ", "g", "r", "e", "a", "t", " ", "w", "o", "r", "k", ".">>

\* "Very good! Minor improvements possible."
MSG_VERY_GOOD ==
    <<"V", "e", "r", "y", " ", "g", "o", "o", "d", "!", " ", "M", "i", "n", "o", "r",
      " ", "i", "m", "p", "r", "o", "v", "e", "m", "e", "n", "t", "s", " ", "p", "o",
      "s", "s", "i", "b", "l", "e", ".">>

\* "Good effort. Focus on: "
MSG_GOOD ==
    <<"G", "o", "o", "d", " ", "e", "f", "f", "o", "r", "t", ".", " ", "F", "o", "c",
      "u", "s", " ", "o", "n", ":", " ">>

\* "Needs practice. Key areas to improve: "
MSG_NEEDS_PRACTICE ==
    <<"N", "e", "e", "d", "s", " ", "p", "r", "a", "c", "t", "i", "c", "e", ".", " ",
      "K", "e", "y", " ", "a", "r", "e", "a", "s", " ", "t", "o", " ", "i", "m", "p",
      "r", "o", "v", "e", ":", " ">>

\* "Consider reviewing the basic rules of tajweed and practice with a teacher."
MSG_REVIEW ==
    <<"C", "o", "n", "s", "i", "d", "e", "r", " ", "r", "e", "v", "i", "e", "w", "i",
      "n", "g", " ", "t", "h", "e", " ", "b", "a", "s", "i", "c", " ", "r", "u", "l",
      "e", "s", " ", "o", "f", " ", "t", "a", "j", "w", "e", "e", "d", " ", "a", "n",
      "d", " ", "p", "r", "a", "c", "t", "i", "c", "e", " ", "w", "i", "t", "h", " ",
      "a", " ", "t", "e", "a", "c", "h", "e", "r", ".">>

\* The error types in order of first occurrence.
RECURSIVE first_occurrences(_, _)
first_occurrences(errs, seen) ==
    IF errs = <<>> THEN seen
    ELSE first_occurrences(Tail(errs),
            IF InList(Head(errs).type, seen) THEN seen ELSE Append(seen, Head(errs).type))

TypeCount(errs, type) == Cardinality({i \in 1..Len(errs) : errs[i].type = type})

\* Counter(error_types).most_common(n): by count, descending, ties in order of
\* first occurrence.
RECURSIVE most_common(_, _, _)
most_common(errs, types, n) ==
    IF n = 0 \/ types = <<>> THEN <<>>
    ELSE LET best == CHOOSE k \in 1..Len(types) :
                        /\ \A m \in 1..Len(types) :
                              TypeCount(errs, types[m]) <= TypeCount(errs, types[k])
                        /\ \A m \in 1..(k - 1) :
                              TypeCount(errs, types[m]) < TypeCount(errs, types[k])
             others == [m \in 1..(Len(types) - 1) |->
                          IF m < best THEN types[m] ELSE types[m + 1]]
         IN  <<types[best]>> \o most_common(errs, others, n - 1)

RECURSIVE join_areas(_)
join_areas(areas) ==
    IF areas = <<>> THEN <<>>
    ELSE IF Len(areas) = 1 THEN areas
    ELSE <<Head(areas), ",", " ">> \o join_areas(Tail(areas))

\* An area name is one token of the message.
get_focus_areas(errs) ==
    LET type_names ==
            [t \in {"substituted_letter", "missing_word", "madd_short", "ghunnah_missing",
                    "qalqalah_missing"} |->
                CASE t = "substituted_letter" -> "letter pronunciation"
                  [] t = "missing_word" -> "complete recitation"
                  [] t = "madd_short" -> "elongation (madd)"
                  [] t = "ghunnah_missing" -> "nasalization (ghunnah)"
                  [] t = "qalqalah_missing" -> "qalqalah bounce"]
        common == most_common(errs, first_occurrences(errs, <<>>), MOST_COMMON)
        areas == [k \in 1..Len(common) |-> Get(type_names, common[k], common[k])]
    IN  IF areas # <<>> THEN join_areas(areas) ELSE <<"general practice">>

\* generate_recommendation with a clean error list taken for an excellent recitation
generate_recommendation_excellent_without_errors(errs, s) ==
    IF errs = <<>> \/ s >= BAND_EXCELLENT THEN MSG_EXCELLENT
    ELSE IF s >= BAND_VERY_GOOD THEN MSG_VERY_GOOD
    ELSE IF s >= BAND_GOOD THEN MSG_GOOD \o get_focus_areas(errs)
    ELSE IF s >= BAND_NEEDS_PRACTICE THEN MSG_NEEDS_PRACTICE \o get_focus_areas(errs)
    ELSE MSG_REVIEW

generate_recommendation(errs, s) ==
    IF s >= BAND_EXCELLENT THEN MSG_EXCELLENT
    ELSE IF s >= BAND_VERY_GOOD THEN MSG_VERY_GOOD
    ELSE IF s >= BAND_GOOD THEN MSG_GOOD \o get_focus_areas(errs)
    ELSE IF s >= BAND_NEEDS_PRACTICE THEN MSG_NEEDS_PRACTICE \o get_focus_areas(errs)
    ELSE MSG_REVIEW

error_to_dict(error) ==
    [type |-> error.type, letter |-> error.letter, expected |-> error.expected,
     detected |-> error.detected, start_time |-> error.start_time,
     end_time |-> error.end_time, confidence |-> error.confidence,
     suggestion |-> error.suggestion,
     correction_audio_url |-> error.correction_audio_url,
     word_index |-> error.word_index, severity |-> error.severity]

(***************************************************************************)
(* tajweed.py: analyze_tajweed.                                            *)
(***************************************************************************)
\* for seg in segments: for word_info in seg.get("words", []): append
transcribed_words_of(segs) ==
    Flatten([k \in 1..Len(segs) |-> Get(segs[k], "words", <<>>)])

\* score = calculate_score(errors, len(expected_words))
analysis_score_by_error_count(errs, expected_words) == calculate_score(errs, Len(errs))

analysis_score(errs, expected_words) == calculate_score(errs, Len(expected_words))

analyze_tajweed(path, ayah, segs) ==
    LET expected_text == Get(ayah, "text", <<>>)
        expected_words == split(expected_text)
        transcribed_words == transcribed_words_of(segs)
        substitution_errors ==
            detect_substituted_letters(transcribed_words, expected_words, segs)
        missing_errors == detect_missing_words(transcribed_words, expected_words, segs)
        madd_errors == detect_madd_errors(path, expected_text, segs)
        ghunnah_errors == detect_ghunnah_errors(path, expected_text, segs)
        qalqalah_errors == detect_qalqalah_errors(path, expected_text, segs)
        errs == substitution_errors.errors \o missing_errors.errors \o madd_errors.errors
                \o ghunnah_errors.errors \o qalqalah_errors.errors
        s == analysis_score(errs, expected_words)
        recommendation == generate_recommendation(errs, s)
    IN  IF substitution_errors.raised \/ missing_errors.raised \/ madd_errors.raised
           \/ ghunnah_errors.raised \/ qalqalah_errors.raised
        THEN [raised |-> TRUE]
        ELSE [raised |-> FALSE,
              errors |-> [k \in 1..Len(errs) |-> error_to_dict(errs[k])],
              score |-> s,
              recommendation |-> recommendation,
              analysis_details |->
                  [expected_words |-> Len(expected_words),
                   detected_errors |-> Len(errs),
                   match_confidence |-> Get(ayah, "confidence", 0)]]

(***************************************************************************)
(* An analysis request: the inputs are fixed and the caller calls the      *)
(* analysis or one of the detectors on them.  The operations only read     *)
(* the inputs, so one call per request shows all a call can do.            *)
(***************************************************************************)
Init ==
    /\ audio_path \in AudioPaths
    /\ matched_ayah \in [surah : {1}, ayah : {1}, text : ExpectedTexts, confidence : {90}]
    /\ segments \in SegmentLists
    /\ ret = NoCall
    /\ errors = <<>>
    /\ word_count = 0
    /\ score = 0
    /\ NoTexts
    /\ NoService

Outcome(fn, outcome) == [fn |-> fn, raised |-> outcome.raised, value |-> outcome]

AnalyzeTajweed ==
    /\ ret = NoCall
    /\ ret' = Outcome("analyze_tajweed",
                      analyze_tajweed(audio_path, matched_ayah, segments))
    /\ UNCHANGED <<audio_path, matched_ayah, segments, scorer_vars, text_vars, service_vars>>

DetectSubstitutedLetters ==
    /\ ret = NoCall
    /\ ret' = Outcome("detect_substituted_letters",
                      detect_substituted_letters(transcribed_words_of(segments),
                                                 split(matched_ayah.text), segments))
    /\ UNCHANGED <<audio_path, matched_ayah, segments, scorer_vars, text_vars, service_vars>>

DetectMissingWords ==
    /\ ret = NoCall
    /\ ret' = Outcome("detect_missing_words",
                      detect_missing_words(transcribed_words_of(segments),
                                           split(matched_ayah.text), segments))
    /\ UNCHANGED <<audio_path, matched_ayah, segments, scorer_vars, text_vars, service_vars>>

DetectMaddErrors ==
    /\ ret = NoCall
    /\ ret' = Outcome("detect_madd_errors",
                      detect_madd_errors(audio_path, matched_ayah.text, segments))
    /\ UNCHANGED <<audio_path, matched_ayah, segments, scorer_vars, text_vars, service_vars>>

DetectGhunnahErrors ==
    /\ ret = NoCall
    /\ ret' = Outcome("detect_ghunnah_errors",
                      detect_ghunnah_errors(audio_path, matched_ayah.text, segments))
    /\ UNCHANGED <<audio_path, matched_ayah, segments, scorer_vars, text_vars, service_vars>>

DetectQalqalahErrors ==
    /\ ret = NoCall
    /\ ret' = Outcome("detect_qalqalah_errors",
                      detect_qalqalah_errors(audio_path, matched_ayah.text, segments))
    /\ UNCHANGED <<audio_path, matched_ayah, segments, scorer_vars, text_vars, service_vars>>

Next ==
    \/ AnalyzeTajweed
    \/ DetectSubstitutedLetters
    \/ DetectMissingWords
    \/ DetectMaddErrors
    \/ DetectGhunnahErrors
    \/ DetectQalqalahErrors

Spec == Init /\ [][Next]_vars

(***************************************************************************)
(* detect_missing_words on its own, on longer word lists.                  *)
(***************************************************************************)
MaxMissingExpected == 4
MaxMissingTranscribed == 3

MissingTexts ==
    {join(ws) : ws \in SeqsUpTo({<<"qaf", "damma", "lam", "sukun">>,
                                 <<"meem", "fatha", "alef">>}, MaxMissingExpected)}

MissingSegmentLists ==
    {Segmented([i \in 1..Len(shapes) |-> WordInfo(shapes[i], i, d)]) :
        shapes \in SeqsUpTo({[kind |-> "timed", word |-> <<"qaf", "tah">>],
                             [kind |-> "bare", word |-> <<"kaf", "teh">>],
                             [kind |-> "word_none", word |-> <<"kaf", "teh">>]},
                            MaxMissingTranscribed),
        d \in WordDurationsMs}

InitMissing ==
    /\ audio_path = [librosa |-> "missing"]
    /\ matched_ayah \in [surah : {1}, ayah : {1}, text : MissingTexts, confidence : {90}]
    /\ segments \in MissingSegmentLists
    /\ ret = NoCall
    /\ errors = <<>>
    /\ word_count = 0
    /\ score = 0
    /\ NoTexts
    /\ NoService

NextMissing == DetectMissingWords

SpecMissing == InitMissing /\ [][NextMissing]_vars


(***************************************************************************)
(* phoneme_utils.py: the phoneme mapper and the edit-distance aligner.     *)
(* A phoneme is a string; a phoneme list is a sequence of strings.         *)
(***************************************************************************)
MaxPhonemes == 3
MaxPairTextLen == 2
MaxTextLen == 3

ARABIC_PHONEMES ==
    LET table == <<
            <<"beh", "b">>, <<"teh", "t">>, <<"theh", "th">>, <<"jeem", "j">>,
            <<"hah", "H">>, <<"khah", "x">>, <<"dal", "d">>, <<"thal", "dh">>,
            <<"reh", "r">>, <<"zain", "z">>, <<"seen", "s">>, <<"sheen", "S">>,
            <<"sad", "s_">>, <<"dad", "d_">>, <<"tah", "t_">>, <<"zah", "dh_">>,
            <<"ain", "?">>, <<"ghain", "G">>, <<"feh", "f">>, <<"qaf", "q">>,
            <<"kaf", "k">>, <<"lam", "l">>, <<"meem", "m">>, <<"noon", "n">>,
            <<"heh", "h">>, <<"waw", "w">>, <<"yeh", "y">>, <<"hamza", "'">>,
            <<"yeh_hamza", "'y">>, <<"waw_hamza", "'w">>, <<"alef_hamza_above", "'a">>,
            <<"alef_hamza_below", "'i">>, <<"alef_madda", "'aa">>, <<"alef", "aa">>,
            <<"alef_maksura", "aa">>, <<"teh_marbuta", "h">> >>
    IN  [c \in {table[k][1] : k \in DOMAIN table} |->
            table[CHOOSE k \in DOMAIN table : table[k][1] = c][2]]

DIACRITIC_PHONEMES ==
    LET table == <<
            <<"fatha", "a">>, <<"damma", "u">>, <<"kasra", "i">>, <<"fathatan", "an">>,
            <<"dammatan", "un">>, <<"kasratan", "in">>, <<"shadda", ":">>,
            <<"sukun", "">>, <<"maddah", "aa">>, <<"superscript_alef", "aa">> >>
    IN  [c \in {table[k][1] : k \in DOMAIN table} |->
            table[CHOOSE k \in DOMAIN table : table[k][1] = c][2]]

\* The while loop of arabic_to_phonemes from index i (0-based) on.
RECURSIVE phonemes_from(_, _)
phonemes_from(text, i) ==
    IF ~(i < Len(text)) THEN <<>>
    ELSE LET char == text[i + 1]
         IN  IF char = " " THEN <<" ">> \o phonemes_from(text, i + 1)
             ELSE IF char \in DOMAIN ARABIC_PHONEMES
             THEN LET phoneme == ARABIC_PHONEMES[char]
                  IN  IF i + 1 < Len(text) /\ text[i + 2] = "shadda"
                      THEN <<phoneme \o phoneme>> \o phonemes_from(text, i + 2)
                      ELSE <<phoneme>> \o phonemes_from(text, i + 1)
             ELSE IF char \in DOMAIN DIACRITIC_PHONEMES
             THEN LET phoneme == DIACRITIC_PHONEMES[char]
                  IN  (IF phoneme # "" THEN <<phoneme>> ELSE <<>>)
                          \o phonemes_from(text, i + 1)
             ELSE phonemes_from(text, i + 1)

arabic_to_phonemes(text) == phonemes_from(text, 0)

\* The matrix without the substitution case of the minimum.
RECURSIVE dp_without_substitution(_, _, _, _)
dp_without_substitution(p1, p2, i, j) ==
    IF j = 0 THEN i
    ELSE IF i = 0 THEN j
    ELSE IF p1[i] = p2[j] THEN dp_without_substitution(p1, p2, i - 1, j - 1)
    ELSE 1 + Min(dp_without_substitution(p1, p2, i - 1, j),
                 dp_without_substitution(p1, p2, i, j - 1))

\* dp[i][j] of phoneme_levenshtein
RECURSIVE dp(_, _, _, _)
dp(p1, p2, i, j) ==
    IF j = 0 THEN i
    ELSE IF i = 0 THEN j
    ELSE IF p1[i] = p2[j] THEN dp(p1, p2, i - 1, j - 1)
    ELSE 1 + Min(Min(dp(p1, p2, i - 1, j), dp(p1, p2, i, j - 1)), dp(p1, p2, i - 1, j - 1))

\* The backtrack loop from (i, j) with the operations appended so far; it
\* yields the operations in the order appended and the cell where it stopped.
RECURSIVE backtrack(_, _, _, _, _)
backtrack(p1, p2, i, j, operations) ==
    IF ~(i > 0 \/ j > 0) THEN [operations |-> operations, i |-> i, j |-> j]
    ELSE IF i > 0 /\ j > 0 /\ p1[i] = p2[j]
    THEN backtrack(p1, p2, i - 1, j - 1, operations)
    ELSE IF i > 0 /\ j > 0 /\ dp(p1, p2, i, j) = dp(p1, p2, i - 1, j - 1) + 1
    THEN backtrack(p1, p2, i - 1, j - 1,
                   Append(operations, [type |-> "substitution", index |-> i - 1,
                                       expected |-> p2[j], detected |-> p1[i]]))
    ELSE IF i > 0 /\ dp(p1, p2, i, j) = dp(p1, p2, i - 1, j) + 1
    THEN backtrack(p1, p2, i - 1, j,
                   Append(operations, [type |-> "insertion", index |-> i - 1,
                                       detected |-> p1[i]]))
    ELSE IF j > 0 /\ dp(p1, p2, i, j) = dp(p1, p2, i, j - 1) + 1
    THEN backtrack(p1, p2, i, j - 1,
                   Append(operations, [type |-> "deletion", index |-> j - 1,
                                       expected |-> p2[j]]))
    ELSE [operations |-> operations, i |-> i, j |-> j]

phoneme_levenshtein(p1, p2) ==
    LET m == Len(p1)
        n == Len(p2)
        operations == backtrack(p1, p2, m, n, <<>>).operations
        reversed == [k \in 1..Len(operations) |-> operations[Len(operations) + 1 - k]]
    IN  [raised |-> FALSE, distance |-> dp(p1, p2, m, n), operations |-> reversed]

\* The ratio taken over the shorter of the two phoneme lists.
phoneme_similarity_over_min_len(t1, t2) ==
    LET p1 == arabic_to_phonemes(t1)
        p2 == arabic_to_phonemes(t2)
        min_len == Min(Len(p1), Len(p2))
    IN  IF p1 = <<>> \/ p2 = <<>> THEN <<0, 1>>
        ELSE <<min_len - phoneme_levenshtein(p1, p2).distance, min_len>>

\* 1.0 - distance / max_len is the fraction <<max_len - distance, max_len>>;
\* 0.0 is <<0, 1>>.
phoneme_similarity(t1, t2) ==
    LET p1 == arabic_to_phonemes(t1)
        p2 == arabic_to_phonemes(t2)
        max_len == Max(Len(p1), Len(p2))
    IN  IF p1 = <<>> \/ p2 = <<>> THEN <<0, 1>>
        ELSE <<max_len - phoneme_levenshtein(p1, p2).distance, max_len>>

(***************************************************************************)
(* alignment.py: normalize_arabic_text.                                    *)
(***************************************************************************)
\* A normalisation that collapses no whitespace run but drops one leading space.
normalize_arabic_text_dropping_one_space(text) ==
    IF text # <<>> /\ Head(text) = " " THEN Tail(text) ELSE text

normalize_arabic_text(text) ==
    LET diacritics == {"fathatan", "dammatan", "kasratan", "fatha", "damma", "kasra",
                       "shadda", "sukun", "maddah", "hamza_above", "hamza_below",
                       "superscript_alef"}
        kept(c) == c \notin diacritics
        stripped == SelectSeq(text, kept)
        sub(c) ==
            IF c \in {"alef_hamza_above", "alef_hamza_below", "alef_madda", "alef"}
            THEN "alef"
            ELSE IF c \in {"alef_maksura", "yeh"} THEN "yeh"
            ELSE IF c = "teh_marbuta" THEN "heh"
            ELSE c
        normalized == [k \in 1..Len(stripped) |-> sub(stripped[k])]
    IN  join(split(normalized))

(***************************************************************************)
(* The text functions on their own: one call on a pair of texts, on one    *)
(* text, or on a pair of phoneme lists.                                    *)
(***************************************************************************)
InitText ==
    /\ NoService
    /\ audio_path = [librosa |-> "missing"]
    /\ matched_ayah = [surah |-> 1, ayah |-> 1, text |-> <<>>]
    /\ segments = <<>>
    /\ ret = NoCall
    /\ errors = <<>>
    /\ word_count = 0
    /\ score = 0
    /\ \/ /\ text1 \in SeqsUpTo({"beh", "teh", "shadda", "sukun", " "}, MaxPairTextLen)
          /\ text2 \in SeqsUpTo({"beh", "teh", "shadda", "sukun", " "}, MaxPairTextLen)
          /\ phonemes1 = <<>>
          /\ phonemes2 = <<>>
       \/ /\ text1 \in SeqsUpTo({"beh", "alef", "alef_hamza_above", "alef_maksura", "yeh",
                                 "teh_marbuta", "fatha", "shadda", " "}, MaxTextLen)
          /\ text2 = <<>>
          /\ phonemes1 = <<>>
          /\ phonemes2 = <<>>
       \/ /\ text1 = <<>>
          /\ text2 = <<>>
          /\ phonemes1 \in SeqsUpTo({"q", "k", "aa"}, MaxPhonemes)
          /\ phonemes2 \in SeqsUpTo({"q", "k", "aa"}, MaxPhonemes)

ArabicToPhonemes ==
    /\ ret = NoCall
    /\ ret' = Outcome("arabic_to_phonemes",
                      [raised |-> FALSE, phonemes |-> arabic_to_phonemes(text1)])
    /\ UNCHANGED <<audio_path, matched_ayah, segments, scorer_vars, text_vars, service_vars>>

PhonemeLevenshtein ==
    /\ ret = NoCall
    /\ ret' = Outcome("phoneme_levenshtein", phoneme_levenshtein(phonemes1, phonemes2))
    /\ UNCHANGED <<audio_path, matched_ayah, segments, scorer_vars, text_vars, service_vars>>

PhonemeSimilarity ==
    /\ ret = NoCall
    /\ ret' = Outcome("phoneme_similarity",
                      [raised |-> FALSE, similarity |-> phoneme_similarity(text1, text2)])
    /\ UNCHANGED <<audio_path, matched_ayah, segments, scorer_vars, text_vars, service_vars>>

NormalizeArabicText ==
    /\ ret = NoCall
    /\ ret' = Outcome("normalize_arabic_text",
                      [raised |-> FALSE, text |-> normalize_arabic_text(text1)])
    /\ UNCHANGED <<audio_path, matched_ayah, segments, scorer_vars, text_vars, service_vars>>

NextText ==
    \/ ArabicToPhonemes
    \/ PhonemeLevenshtein
    \/ PhonemeSimilarity
    \/ NormalizeArabicText

SpecText == InitText /\ [][NextText]_vars

(***************************************************************************)
(* difflib.SequenceMatcher(None, a, b) on sequences shorter than the       *)
(* autojunk limit: no element is junk.  Indices are 0-based and ranges are *)
(* half open, as in difflib.                                               *)
(***************************************************************************)
\* the length of the longest common run of a[i:ahi] and b[j:bhi] from their starts
RECURSIVE common_run(_, _, _, _, _, _)
common_run(a, b, i, j, ahi, bhi) ==
    IF i < ahi /\ j < bhi /\ a[i + 1] = b[j + 1]
    THEN 1 + common_run(a, b, i + 1, j + 1, ahi, bhi)
    ELSE 0

\* find_longest_match: the longest block, of those the one starting earliest
\* in a, of those the one starting earliest in b; (alo, blo, 0) if none
find_longest_match(a, b, alo, ahi, blo, bhi) ==
    LET blocks == {[i |-> i, j |-> j, size |-> common_run(a, b, i, j, ahi, bhi)] :
                      i \in alo..(ahi - 1), j \in blo..(bhi - 1)}
        matches == {x \in blocks : x.size > 0}
    IN  IF matches = {} THEN [i |-> alo, j |-> blo, size |-> 0]
        ELSE CHOOSE x \in matches :
                \A y \in matches :
                    \/ y.size < x.size
                    \/ (y.size = x.size /\ x.i < y.i)
                    \/ (y.size = x.size /\ x.i = y.i /\ x.j <= y.j)

\* get_matching_blocks, before the terminating dummy: the longest match of
\* the range, then those of the ranges to its left and to its right, sorted
RECURSIVE matching_blocks(_, _, _, _, _, _)
matching_blocks(a, b, alo, ahi, blo, bhi) ==
    LET x == find_longest_match(a, b, alo, ahi, blo, bhi)
    IN  IF x.size = 0 THEN <<>>
        ELSE (IF alo < x.i /\ blo < x.j
              THEN matching_blocks(a, b, alo, x.i, blo, x.j) ELSE <<>>)
             \o <<x>>
             \o (IF x.i + x.size < ahi /\ x.j + x.size < bhi
                 THEN matching_blocks(a, b, x.i + x.size, ahi, x.j + x.size, bhi)
                 ELSE <<>>)

\* adjacent equal blocks collapsed into one
RECURSIVE collapsed(_)
collapsed(blocks) ==
    IF Len(blocks) < 2 THEN blocks
    ELSE LET x == blocks[1]
             y == blocks[2]
         IN  IF x.i + x.size = y.i /\ x.j + x.size = y.j
             THEN collapsed(<<[x EXCEPT !.size = x.size + y.size]>>
                            \o SubSeq(blocks, 3, Len(blocks)))
             ELSE <<x>> \o collapsed(Tail(blocks))

get_matching_blocks(a, b) ==
    collapsed(matching_blocks(a, b, 0, Len(a), 0, Len(b)))
    \o <<[i |-> Len(a), j |-> Len(b), size |-> 0]>>

\* get_opcodes: <<tag, i1, i2, j1, j2>> for each gap before a block and each block
RECURSIVE opcodes_from(_, _, _)
opcodes_from(blocks, i, j) ==
    IF blocks = <<>> THEN <<>>
    ELSE LET x == Head(blocks)
             tag == IF i < x.i /\ j < x.j THEN "replace"
                    ELSE IF i < x.i THEN "delete"
                    ELSE IF j < x.j THEN "insert"
                    ELSE ""
         IN  (IF tag # "" THEN <<<<tag, i, x.i, j, x.j>>>> ELSE <<>>)
             \o (IF x.size > 0
                 THEN <<<<"equal", x.i, x.i + x.size, x.j, x.j + x.size>>>> ELSE <<>>)
             \o opcodes_from(Tail(blocks), x.i + x.size, x.j + x.size)

get_opcodes(a, b) == opcodes_from(get_matching_blocks(a, b), 0, 0)

\* SequenceMatcher(None, a, b).ratio() as <<2 * matches, len(a) + len(b)>>
ratio(a, b) ==
    LET blocks == get_matching_blocks(a, b)
        RECURSIVE matches(_)
        matches(k) == IF k = 0 THEN 0 ELSE blocks[k].size + matches(k - 1)
    IN  IF Len(a) + Len(b) = 0 THEN <<1, 1>> ELSE <<2 * matches(Len(blocks)), Len(a) + Len(b)>>

(***************************************************************************)
(* alignment.py: get_word_alignment.  Indices are the 0-based indices of   *)
(* the Python lists; `x if idx else None` takes the index 0 for false as   *)
(* it does None.                                                           *)
(***************************************************************************)
Truthy(idx) == idx # NoneNumber /\ idx # 0

opcode_alignments(opcode, transcribed_words, expected_words) ==
    LET tag == opcode[1]
        i1 == opcode[2]
        i2 == opcode[3]
        j1 == opcode[4]
        j2 == opcode[5]
        longer == IF i2 - i1 >= j2 - j1 THEN i2 - i1 ELSE j2 - j1
    IN  IF tag = "equal"
        THEN [k \in 1..(i2 - i1) |->
                 [type |-> "match",
                  transcribed_index |-> i1 + k - 1,
                  expected_index |-> j1 + k - 1,
                  transcribed_word |-> transcribed_words[i1 + k],
                  expected_word |-> expected_words[j1 + k]]]
        ELSE IF tag = "replace"
        THEN [k \in 1..longer |->
                 LET t_idx == IF i1 + k - 1 < i2 THEN i1 + k - 1 ELSE NoneNumber
                     e_idx == IF j1 + k - 1 < j2 THEN j1 + k - 1 ELSE NoneNumber
                 IN  [type |-> "substitution",
                      transcribed_index |-> t_idx,
                      expected_index |-> e_idx,
                      transcribed_word |->
                          IF Truthy(t_idx) THEN transcribed_words[t_idx + 1] ELSE None,
                      expected_word |->
                          IF Truthy(e_idx) THEN expected_words[e_idx + 1] ELSE None]]
        ELSE IF tag = "delete"
        THEN [k \in 1..(i2 - i1) |->
                 [type |-> "insertion",
                  transcribed_index |-> i1 + k - 1,
                  expected_index |-> NoneNumber,
                  transcribed_word |-> transcribed_words[i1 + k],
                  expected_word |-> None]]
        ELSE [k \in 1..(j2 - j1) |->
                 [type |-> "deletion",
                  transcribed_index |-> NoneNumber,
                  expected_index |-> j1 + k - 1,
                  transcribed_word |-> None,
                  expected_word |-> expected_words[j1 + k]]]

RECURSIVE alignments_from(_, _, _)
alignments_from(opcodes, transcribed_words, expected_words) ==
    IF opcodes = <<>> THEN <<>>
    ELSE opcode_alignments(Head(opcodes), transcribed_words, expected_words)
         \o alignments_from(Tail(opcodes), transcribed_words, expected_words)

get_word_alignment(transcribed_words, expected_words) ==
    alignments_from(get_opcodes(transcribed_words, expected_words),
                    transcribed_words, expected_words)

MaxAlignedWords == 3

AlignedWords == {"qul", "huwa", "ahad"}

AlignmentCalls ==
    [endpoint : {"get_word_alignment"},
     transcribed_words : SeqsUpTo(AlignedWords, MaxAlignedWords),
     expected_words : SeqsUpTo(AlignedWords, MaxAlignedWords)]

InitAlign ==
    /\ request \in AlignmentCalls
    /\ settings = DefaultSettings
    /\ calls = <<>>
    /\ NoPractice
    /\ users_db = <<>>
    /\ uuids = 0
    /\ ret = NoCall
    /\ errors = <<>>
    /\ word_count = 0
    /\ score = 0
    /\ audio_path = [librosa |-> "missing"]
    /\ matched_ayah = [surah |-> 1, ayah |-> 1, text |-> <<>>]
    /\ segments = <<>>
    /\ NoTexts

GetWordAlignment ==
    /\ ret = NoCall
    /\ ret' = Outcome("get_word_alignment",
                      [raised |-> FALSE,
                       alignments |-> get_word_alignment(request.transcribed_words,
                                                         request.expected_words)])
    /\ UNCHANGED <<audio_path, matched_ayah, segments, scorer_vars, text_vars,
                   service_vars>>

SpecAlign == InitAlign /\ [][GetWordAlignment]_vars

(***************************************************************************)
(* alignment.py: the Quran database and get_ayah_text.  The data file is   *)
(* not part of the repository: the database is the fallback of             *)
(* _load_quran_database, the two ayahs 1:1 and 112:1 (written here without *)
(* their diacritics).                                                      *)
(***************************************************************************)
QURAN_DATABASE ==
    [key \in {<<1, 1>>, <<112, 1>>} |->
        IF key = <<1, 1>>
        THEN join(<<(<<"beh", "seen", "meem">>), <<"alef", "lam", "lam", "heh">>,
                    <<"alef", "lam", "reh", "hah", "meem", "noon">>,
                    <<"alef", "lam", "reh", "hah", "yeh", "meem">>>>)
        ELSE join(<<(<<"qaf", "lam">>), <<"heh", "waw">>, <<"alef", "lam", "lam", "heh">>,
                    <<"alef", "hah", "dal">>>>)]

get_ayah_text(surah, ayah) ==
    IF <<surah, ayah>> \in DOMAIN QURAN_DATABASE THEN QURAN_DATABASE[<<surah, ayah>>]
    ELSE NoneWord

(***************************************************************************)
(* routes/analyze.py: quick_analyze.  The request carries, next to its     *)
(* form fields, what the audio pipeline makes of the upload: whether       *)
(* normalize_audio_to_16k and transcribe succeed, and the transcription.   *)
(***************************************************************************)
PASS_THRESHOLD == 75

HTTPException(status_code) ==
    [raised |-> TRUE, exception |-> "HTTPException", status_code |-> status_code]

PythonError(exception) == [raised |-> TRUE, exception |-> exception, status_code |-> 0]

\* round(similarity, 2), in hundredths
rounded_ratio(r) == (200 * r[1] + r[2]) \div (2 * r[2])

\* the statements of the try block
quick_analyze_try(req) ==
    IF req.audio # "ok" THEN PythonError("RuntimeError")
    ELSE LET expected_text == get_ayah_text(req.surah, req.ayah)
         IN  IF expected_text = NoneWord THEN PythonError("AttributeError")
             ELSE LET expected_words == split(expected_text)
                      transcribed_words == split(req.transcription)
                  IN  IF req.target_word_index < 0
                         \/ req.target_word_index >= Len(expected_words)
                      THEN HTTPException(400)
                      ELSE LET target_word == expected_words[req.target_word_index + 1]
                               similarities ==
                                   [k \in 1..Len(transcribed_words) |->
                                       ratio(target_word, transcribed_words[k])]
                               best == CHOOSE k \in 1..Len(transcribed_words) :
                                          \A m \in 1..Len(transcribed_words) :
                                              similarities[m][1] * similarities[k][2]
                                                 <= similarities[k][1] * similarities[m][2]
                           IN  IF Len(transcribed_words) > 0
                               THEN [raised |-> FALSE, status_code |-> 200,
                                     passed |-> 100 * similarities[best][1]
                                                   >= PASS_THRESHOLD * similarities[best][2],
                                     confidence |-> rounded_ratio(similarities[best]),
                                     feedback |->
                                         IF 100 * similarities[best][1]
                                               >= PASS_THRESHOLD * similarities[best][2]
                                         THEN "pronounced correctly"
                                         ELSE "needs more practice",
                                     target_word |-> target_word,
                                     detected |-> transcribed_words[1]]
                               ELSE [raised |-> FALSE, status_code |-> 200,
                                     passed |-> FALSE, confidence |-> 0,
                                     feedback |-> "no speech detected",
                                     target_word |-> target_word,
                                     detected |-> NoneWord]

\* try: ... except Exception as e: raise HTTPException(status_code=500, ...)
quick_analyze(req) ==
    LET attempt == quick_analyze_try(req)
    IN  IF attempt.raised THEN HTTPException(500) ELSE attempt

MaxWordIndex == 4

QuickRequests ==
    [endpoint : {"quick_analyze"},
     surah : {1, 2, 112},
     ayah : {1},
     target_word_index : (0 - 1)..MaxWordIndex,
     audio : {"ok", "unreadable"},
     transcription : {<<>>,
                      <<"beh", "seen", "meem">>,
                      <<"qaf", "lam", " ", "heh", "waw", "alef">>,
                      <<"alef", "lam", "heh">>}]

InitQuick ==
    /\ request \in QuickRequests
    /\ ret = NoCall
    /\ errors = <<>>
    /\ word_count = 0
    /\ score = 0
    /\ audio_path = [librosa |-> "missing"]
    /\ matched_ayah = [surah |-> 1, ayah |-> 1, text |-> <<>>]
    /\ segments = <<>>
    /\ NoTexts
    /\ settings = DefaultSettings
    /\ calls = <<>>
    /\ NoPractice
    /\ users_db = <<>>
    /\ uuids = 0

QuickAnalyze ==
    /\ ret = NoCall
    /\ ret' = Outcome("quick_analyze", quick_analyze(request))
    /\ UNCHANGED <<audio_path, matched_ayah, segments, scorer_vars, text_vars, service_vars>>

SpecQuick == InitQuick /\ [][QuickAnalyze]_vars

(***************************************************************************)
(* spaced_repetition.py: calculate_sm2.                                    *)
(***************************************************************************)
EF_MINIMUM == 130
EF_DEFAULT == 250

\* how a float product that is a whole number in decimal comes out
Roundings == {"exact", "above"}

\* math.ceil(interval * new_ef)
ceil_product(interval, new_ef, rounding) ==
    IF (interval * new_ef) % 100 # 0 THEN (interval * new_ef) \div 100 + 1
    ELSE IF rounding = "above" THEN (interval * new_ef) \div 100 + 1
    ELSE (interval * new_ef) \div 100

\* calculate_sm2 with the interval grown on every successful review
calculate_sm2_growing_from_first_review(easiness_factor, interval, repetitions, quality, rounding) ==
    LET q == Max(0, Min(5, quality))
        new_ef == Max(EF_MINIMUM, easiness_factor + (10 - (5 - q) * (8 + (5 - q) * 2)))
    IN  IF q < 3 THEN <<new_ef, 1, 0>>
        ELSE <<new_ef, ceil_product(interval, new_ef, rounding), repetitions + 1>>

calculate_sm2(easiness_factor, interval, repetitions, quality, rounding) ==
    LET q == Max(0, Min(5, quality))
        new_ef == Max(EF_MINIMUM, easiness_factor + (10 - (5 - q) * (8 + (5 - q) * 2)))
        new_repetitions == repetitions + 1
    IN  IF q < 3 THEN <<new_ef, 1, 0>>
        ELSE IF new_repetitions = 1 THEN <<new_ef, 1, new_repetitions>>
        ELSE IF new_repetitions = 2 THEN <<new_ef, 6, new_repetitions>>
        ELSE <<new_ef, ceil_product(interval, new_ef, rounding), new_repetitions>>

MaxRepetitions == 3

Sm2Calls ==
    [endpoint : {"calculate_sm2"},
     easiness_factor : {130, 136, 190, 250, 260},
     interval : {1, 5, 6, 15},
     repetitions : 0..MaxRepetitions,
     quality : (0 - 1)..6]

InitSm2 ==
    /\ request \in Sm2Calls
    /\ ret = NoCall
    /\ errors = <<>>
    /\ word_count = 0
    /\ score = 0
    /\ audio_path = [librosa |-> "missing"]
    /\ matched_ayah = [surah |-> 1, ayah |-> 1, text |-> <<>>]
    /\ segments = <<>>
    /\ NoTexts
    /\ settings = DefaultSettings
    /\ calls = <<>>
    /\ NoPractice
    /\ users_db = <<>>
    /\ uuids = 0

CalculateSm2 ==
    /\ ret = NoCall
    /\ \E rounding \in Roundings :
           ret' = Outcome("calculate_sm2",
                          [raised |-> FALSE, rounding |-> rounding,
                           result |-> calculate_sm2(request.easiness_factor, request.interval,
                                                    request.repetitions, request.quality,
                                                    rounding)])
    /\ UNCHANGED <<audio_path, matched_ayah, segments, scorer_vars, text_vars, service_vars>>

SpecSm2 == InitSm2 /\ [][CalculateSm2]_vars

(***************************************************************************)
(* spaced_repetition.py and routes/practice.py: the practice items.  An    *)
(* item_id is the number of the uuid4 draw that made it.  A store is the   *)
(* pair of module-level dicts with the uuid count:                         *)
(* [items |-> practice_items_db, queues |-> user_queues_db, uuids].        *)
(* datetime.utcnow() + timedelta(days=n) is <<"utcnow", n>>.               *)
(***************************************************************************)
PracticeItem(item_id, user_id, surah, ayah, error_type) ==
    [item_id |-> item_id, user_id |-> user_id, surah |-> surah, ayah |-> ayah,
     error_type |-> error_type, easiness_factor |-> EF_DEFAULT, interval |-> 1,
     repetitions |-> 0, next_review |-> <<"utcnow", 0>>, last_review |-> NoneWord,
     total_attempts |-> 0, successful_attempts |-> 0]

Store == [items |-> practice_items_db, queues |-> user_queues_db, uuids |-> uuids]

create_practice_item(store, user_id, surah, ayah, error_type) ==
    LET item_id == store.uuids + 1
        item == PracticeItem(item_id, user_id, surah, ayah, error_type)
    IN  [item |-> item,
         store |-> [items |-> (item_id :> item) @@ store.items,
                    queues |-> IF user_id \in DOMAIN store.queues
                               THEN [store.queues EXCEPT ![user_id] = Append(@, item_id)]
                               ELSE (user_id :> <<item_id>>) @@ store.queues,
                    uuids |-> item_id]]

\* the first item of the user's queue with this surah, ayah and error type, or None
_find_similar_item(store, user_id, surah, ayah, error_type) ==
    LET queue == Get(store.queues, user_id, <<>>)
        similar == {k \in 1..Len(queue) :
                       /\ queue[k] \in DOMAIN store.items
                       /\ store.items[queue[k]].surah = surah
                       /\ store.items[queue[k]].ayah = ayah
                       /\ store.items[queue[k]].error_type = error_type}
    IN  IF similar = {} THEN NoneNumber
        ELSE queue[CHOOSE k \in similar : \A m \in similar : k <= m]

\* add_errors_to_practice creating an item for every error
RECURSIVE add_errors_to_practice_without_lookup(_, _, _, _, _, _)
add_errors_to_practice_without_lookup(store, user_id, surah, ayah, errs, added_items) ==
    IF errs = <<>> THEN [store |-> store, added_items |-> added_items]
    ELSE LET created == create_practice_item(store, user_id, surah, ayah,
                                             Get(Head(errs), "type", "unknown"))
         IN  add_errors_to_practice_without_lookup(created.store, user_id, surah, ayah,
                                                   Tail(errs),
                                                   Append(added_items, created.item))

RECURSIVE add_errors_to_practice(_, _, _, _, _, _)
add_errors_to_practice(store, user_id, surah, ayah, errs, added_items) ==
    IF errs = <<>> THEN [store |-> store, added_items |-> added_items]
    ELSE LET error_type == Get(Head(errs), "type", "unknown")
             existing == _find_similar_item(store, user_id, surah, ayah, error_type)
             created == create_practice_item(store, user_id, surah, ayah, error_type)
         IN  IF existing = NoneNumber
             THEN add_errors_to_practice(created.store, user_id, surah, ayah, Tail(errs),
                                         Append(added_items, created.item))
             ELSE add_errors_to_practice(store, user_id, surah, ayah, Tail(errs),
                                         added_items)

\* process_review counting a successful review as two successful attempts
process_review_counting_successes_twice(items, result, rounding) ==
    IF result.item_id \notin DOMAIN items
    THEN [raised |-> TRUE, exception |-> "ValueError", items |-> items]
    ELSE LET item_data == items[result.item_id]
             sm2 == calculate_sm2(item_data.easiness_factor, item_data.interval,
                                  item_data.repetitions, result.quality, rounding)
             updated == [item_data EXCEPT
                            !.easiness_factor = sm2[1],
                            !.interval = sm2[2],
                            !.repetitions = sm2[3],
                            !.next_review = <<"utcnow", sm2[2]>>,
                            !.last_review = <<"utcnow", 0>>,
                            !.total_attempts = @ + 1,
                            !.successful_attempts =
                                IF result.quality >= 3 THEN @ + 2 ELSE @]
         IN  [raised |-> FALSE, item |-> updated,
              items |-> [items EXCEPT ![result.item_id] = updated]]

process_review(items, result, rounding) ==
    IF result.item_id \notin DOMAIN items
    THEN [raised |-> TRUE, exception |-> "ValueError", items |-> items]
    ELSE LET item_data == items[result.item_id]
             sm2 == calculate_sm2(item_data.easiness_factor, item_data.interval,
                                  item_data.repetitions, result.quality, rounding)
             updated == [item_data EXCEPT
                            !.easiness_factor = sm2[1],
                            !.interval = sm2[2],
                            !.repetitions = sm2[3],
                            !.next_review = <<"utcnow", sm2[2]>>,
                            !.last_review = <<"utcnow", 0>>,
                            !.total_attempts = @ + 1,
                            !.successful_attempts =
                                IF result.quality >= 3 THEN @ + 1 ELSE @]
         IN  [raised |-> FALSE, item |-> updated,
              items |-> [items EXCEPT ![result.item_id] = updated]]

\* POST /api/v1/practice/review
submit_review(items, review, current_user, rounding) ==
    LET processed == process_review(items, [item_id |-> review.item_id,
                                            quality |-> review.quality], rounding)
    IN  IF processed.raised
        THEN [response |-> HTTPException(404), items |-> items]
        ELSE [response |-> [raised |-> FALSE, status_code |-> 200, success |-> TRUE,
                            item |-> processed.item],
              items |-> processed.items]

\* DELETE /api/v1/practice/item/{item_id}
remove_practice_item(store, item_id, current_user) ==
    IF item_id \notin DOMAIN store.items
    THEN [response |-> HTTPException(404), store |-> store]
    ELSE IF store.items[item_id].user_id # current_user
    THEN [response |-> HTTPException(403), store |-> store]
    ELSE [response |-> [raised |-> FALSE, status_code |-> 200, success |-> TRUE,
                        removed |-> item_id],
          store |-> [store EXCEPT
                        !.items = [id \in DOMAIN store.items \ {item_id} |-> store.items[id]],
                        !.queues =
                            IF current_user \in DOMAIN store.queues
                            THEN [store.queues EXCEPT ![current_user] =
                                      SelectSeq(@, LAMBDA i : i # item_id)]
                            ELSE store.queues]]

(***************************************************************************)
(* The practice endpoints, served one request at a time (the handlers are  *)
(* coroutines without an await) for authenticated users.  calls is the     *)
(* list of the item_ids of the reviews that process_review has processed.  *)
(***************************************************************************)
MaxItems == 2
MaxReviews == 3
MaxErrorsPerRequest == 2

Users == {"user-a", "user-b"}

ErrorDicts == {[type |-> "madd_short"], [letter |-> "qaf"]}

InitPractice ==
    /\ NoService
    /\ ret = NoCall
    /\ errors = <<>>
    /\ word_count = 0
    /\ score = 0
    /\ audio_path = [librosa |-> "missing"]
    /\ matched_ayah = [surah |-> 1, ayah |-> 1, text |-> <<>>]
    /\ segments = <<>>
    /\ NoTexts

AddErrorsFromAnalysis(current_user, surah, ayah, errs) ==
    /\ LET added == add_errors_to_practice(Store, current_user, surah, ayah, errs, <<>>)
       IN  /\ added.store.uuids <= MaxItems
           /\ practice_items_db' = added.store.items
           /\ user_queues_db' = added.store.queues
           /\ uuids' = added.store.uuids
           /\ ret' = Outcome("add_errors_from_analysis",
                             [raised |-> FALSE, status_code |-> 200,
                              added_count |-> Len(added.added_items),
                              items |-> added.added_items])
    /\ request' = [endpoint |-> "add-errors", user_id |-> current_user,
                   surah |-> surah, ayah |-> ayah, errors |-> errs]
    /\ UNCHANGED <<audio_path, matched_ayah, segments, scorer_vars, text_vars, settings,
                   calls, users_db>>

SubmitReview(current_user, item_id, quality) ==
    /\ Len(calls) < MaxReviews
    /\ \E rounding \in Roundings :
           LET served == submit_review(practice_items_db,
                                       [item_id |-> item_id, quality |-> quality],
                                       current_user, rounding)
           IN  /\ practice_items_db' = served.items
               /\ ret' = Outcome("submit_review", served.response)
               /\ calls' = IF served.response.raised THEN calls ELSE Append(calls, item_id)
    /\ request' = [endpoint |-> "review", user_id |-> current_user]
    /\ UNCHANGED <<audio_path, matched_ayah, segments, scorer_vars, text_vars, settings,
                   user_queues_db, users_db, uuids>>

RemovePracticeItem(current_user, item_id) ==
    /\ LET served == remove_practice_item(Store, item_id, current_user)
       IN  /\ practice_items_db' = served.store.items
           /\ user_queues_db' = served.store.queues
           /\ ret' = Outcome("remove_practice_item", served.response)
    /\ request' = [endpoint |-> "delete", user_id |-> current_user]
    /\ UNCHANGED <<audio_path, matched_ayah, segments, scorer_vars, text_vars, settings,
                   calls, users_db, uuids>>

NextPractice ==
    \/ \E current_user \in Users : \E ayah \in {1, 2} :
           \E errs \in SeqsUpTo(ErrorDicts, MaxErrorsPerRequest) :
               AddErrorsFromAnalysis(current_user, 1, ayah, errs)
    \/ \E current_user \in Users : \E item_id \in 1..MaxItems :
           \E quality \in {0, 3} :
               SubmitReview(current_user, item_id, quality)
    \/ \E current_user \in Users : \E item_id \in 1..MaxItems :
           RemovePracticeItem(current_user, item_id)

SpecPractice == InitPractice /\ [][NextPractice]_vars

(***************************************************************************)
(* auth.py: registration.  users_db maps the user id, the number of the    *)
(* uuid4 draw that made it, to the stored user.  An email is the string    *)
(* EmailStr validation lets through; the bcrypt hash of a password is      *)
(* <<"bcrypt", password>>.                                                 *)
(***************************************************************************)
get_password_hash(password) == <<"bcrypt", password>>

\* register_user storing the user without looking for the email
register_user_without_email_check(db, drawn, user_data) ==
    LET user_id == drawn + 1
        user == [id |-> user_id, email |-> user_data.email, name |-> user_data.name,
                 hashed_password |-> get_password_hash(user_data.password),
                 created_at |-> "utcnow"]
    IN  [response |-> [raised |-> FALSE, status_code |-> 200, id |-> user_id,
                       email |-> user_data.email, name |-> user_data.name,
                       created_at |-> user.created_at],
         users_db |-> (user_id :> user) @@ db,
         uuids |-> user_id]

register_user(db, drawn, user_data) ==
    IF \E id \in DOMAIN db : db[id].email = user_data.email
    THEN [response |-> HTTPException(400), users_db |-> db, uuids |-> drawn]
    ELSE LET user_id == drawn + 1
             user == [id |-> user_id, email |-> user_data.email,
                      name |-> user_data.name,
                      hashed_password |-> get_password_hash(user_data.password),
                      created_at |-> "utcnow"]
         IN  [response |-> [raised |-> FALSE, status_code |-> 200, id |-> user_id,
                            email |-> user_data.email, name |-> user_data.name,
                            created_at |-> user.created_at],
              users_db |-> (user_id :> user) @@ db,
              uuids |-> user_id]

MaxUsers == 3

Emails == {"reader@example.com", "Reader@example.com", "qari@example.com",
           "hafiz@example.com"}

UserCreate == [email : Emails, password : {"secret", "tajweed"}, name : {"Amina", "Bilal"}]

InitAuth == InitPractice

\* POST /api/v1/auth/register
Register(user_data) ==
    /\ LET registered == register_user(users_db, uuids, user_data)
       IN  /\ registered.uuids <= MaxUsers
           /\ users_db' = registered.users_db
           /\ uuids' = registered.uuids
           /\ ret' = Outcome("register_user", registered.response)
    /\ request' = [endpoint |-> "register", email |-> user_data.email]
    /\ UNCHANGED <<audio_path, matched_ayah, segments, scorer_vars, text_vars, settings,
                   calls, practice_vars>>

NextAuth == \E user_data \in UserCreate : Register(user_data)

SpecAuth == InitAuth /\ [][NextAuth]_vars

(***************************************************************************)
(* The acoustic detectors on timed words: every expected word has a slot   *)
(* of the longest word duration, an ASR word fills its slot wholly or in   *)
(* part, the last expected word may have no ASR word, and the recording    *)
(* ends after the first word or after the last slot.                       *)
(***************************************************************************)
MaxAcousticWords == 2

AcousticWordDurationsMs == {600, 2400}

AcousticSlotMs == CHOOSE d \in AcousticWordDurationsMs : \A e \in AcousticWordDurationsMs : e <= d

AcousticVocabulary ==
    {<<"alef">>,
     <<"meem", "fatha", "alef">>,
     <<"meem", "kasra", "noon", "sukun">>,
     <<"noon", "shadda", "alef">>,
     <<"waw", "meem">>}

AcousticRecordings ==
    {Recording(samples, madd_voiced_pct, ghunnah_voiced_pct, nasal_pct, 20, 30, 50) :
        samples \in {SR * d : d \in AcousticWordDurationsMs}
                        \cup {SR * AcousticSlotMs * MaxAcousticWords},
        madd_voiced_pct \in {10, 50, 75, 100},
        ghunnah_voiced_pct \in {30, 40},
        nasal_pct \in {10, 30}}

AcousticInputs ==
    /\ \E words \in SeqsUpTo(AcousticVocabulary, MaxAcousticWords) :
         \E timed \in {Len(words) - 1, Len(words)} :
             \E durations \in [1..timed -> AcousticWordDurationsMs] :
                 /\ Len(words) > 0
                 /\ matched_ayah = [surah |-> 1, ayah |-> 1, text |-> join(words),
                                    confidence |-> 90]
                 /\ segments =
                        Segmented([i \in 1..timed |->
                                      [word |-> words[i],
                                       start |-> (i - 1) * AcousticSlotMs,
                                       end |-> (i - 1) * AcousticSlotMs + durations[i]]])
    /\ audio_path \in AcousticRecordings
    /\ ret = NoCall
    /\ errors = <<>>
    /\ word_count = 0
    /\ score = 0
    /\ NoTexts
    /\ NoStores

InitAcoustic == AcousticInputs /\ settings = DefaultSettings

NextAcoustic ==
    \/ DetectMaddErrors
    \/ DetectGhunnahErrors

SpecAcoustic == InitAcoustic /\ [][NextAcoustic]_vars

\* The acoustic detectors under a configuration: the thresholds of class
\* Settings as shipped, or overridden by the environment.
ConfiguredSettings ==
    {[DefaultSettings EXCEPT !.MADD_SHORT_THRESHOLD = madd_short_threshold,
                             !.GHUNNAH_MIN_DURATION = ghunnah_min_duration] :
        madd_short_threshold \in {50, 150}, ghunnah_min_duration \in {60, 120}}

InitConfigured == AcousticInputs /\ settings \in ConfiguredSettings

SpecConfigured == InitConfigured /\ [][NextAcoustic]_vars

(***************************************************************************)
(* generate_recommendation on its own: any score of [0, 1], in hundredths, *)
(* with any list of up to MaxRecommendErrors errors of three types.        *)
(***************************************************************************)
MaxRecommendErrors == 2

TypedError(type) ==
    TajweedError(type, "qaf", <<"qaf">>, <<"kaf">>, 0, 500, 80, <<"Test">>, <<>>,
                 NoneNumber, "medium")

InitRecommend ==
    /\ \E types \in SeqsUpTo({"madd_short", "missing_word", "qalqalah_weak"},
                              MaxRecommendErrors) :
           errors = [k \in 1..Len(types) |-> TypedError(types[k])]
    /\ score \in 0..100
    /\ word_count = 0
    /\ audio_path = [librosa |-> "missing"]
    /\ matched_ayah = [surah |-> 1, ayah |-> 1, text |-> <<>>]
    /\ segments = <<>>
    /\ ret = NoCall
    /\ NoTexts
    /\ NoService

GenerateRecommendation ==
    /\ ret = NoCall
    /\ ret' = Outcome("generate_recommendation",
                      [raised |-> FALSE,
                       recommendation |-> generate_recommendation(errors, score)])
    /\ UNCHANGED <<audio_path, matched_ayah, segments, scorer_vars, text_vars, service_vars>>

SpecRecommend == InitRecommend /\ [][GenerateRecommendation]_vars

(***************************************************************************)
(* The five detectors called directly, one after another in any order, on  *)
(* the same audio, expected text and word timings.                         *)
(***************************************************************************)
MaxCalls == 3

DetectorFunctions ==
    {"detect_substituted_letters", "detect_missing_words", "detect_madd_errors",
     "detect_ghunnah_errors", "detect_qalqalah_errors"}

detector(fn, path, expected_text, segs) ==
    CASE fn = "detect_substituted_letters" ->
            detect_substituted_letters(transcribed_words_of(segs), split(expected_text), segs)
      [] fn = "detect_missing_words" ->
            detect_missing_words(transcribed_words_of(segs), split(expected_text), segs)
      [] fn = "detect_madd_errors" -> detect_madd_errors(path, expected_text, segs)
      [] fn = "detect_ghunnah_errors" -> detect_ghunnah_errors(path, expected_text, segs)
      [] fn = "detect_qalqalah_errors" -> detect_qalqalah_errors(path, expected_text, segs)

InitIsolation ==
    /\ audio_path \in AudioPaths
    /\ \E word \in ExpectedVocabulary :
           matched_ayah = [surah |-> 1, ayah |-> 1, confidence |-> 90,
                           text |-> join(<<word, <<"meem", "fatha", "alef">>>>)]
    /\ \E shape \in WordShapes : \E d \in WordDurationsMs :
           segments = Segmented(<<WordInfo(shape, 1, d)>>)
    /\ ret = NoCall
    /\ errors = <<>>
    /\ word_count = 0
    /\ score = 0
    /\ NoTexts
    /\ NoService

CallDetector(fn) ==
    /\ Len(calls) < MaxCalls
    /\ ret' = Outcome(fn, detector(fn, audio_path, matched_ayah.text, segments))
    /\ calls' = Append(calls, ret')
    /\ UNCHANGED <<audio_path, matched_ayah, segments, scorer_vars, text_vars, settings,
                   request, practice_vars, users_db, uuids>>

NextIsolation == \E fn \in DetectorFunctions : CallDetector(fn)

SpecIsolation == InitIsolation /\ [][NextIsolation]_vars

(***************************************************************************)
(* Properties of the scorer (specification SpecScore).                     *)
(***************************************************************************)
SeverityCount(severity) ==
    Cardinality({i \in 1..Len(errors) : errors[i].severity = severity})

\* C1: for every error list and every expected word count > 0, calculate_score
\* returns 1 minus the sum of the penalties (0.15 high, 0.08 medium, 0.03 low,
\* 0.08 any other severity), clamped to [0,1] and rounded to 2 decimals; it is
\* within [0,1] and is 1.0 for the empty list.
C1_ScoreFormula ==
    word_count > 0 =>
        LET penalty == 15 * SeverityCount("high") + 8 * SeverityCount("medium")
                       + 3 * SeverityCount("low") + 8 * SeverityCount("critical")
        IN  /\ score = (IF penalty >= 100 THEN 0 ELSE 100 - penalty)
            /\ score \in 0..100
            /\ (errors = <<>> => score = 100)

C1_Witness ==
    /\ word_count > 0
    /\ \A severity \in Severities : SeverityCount(severity) = 1
    /\ score = 66

\* C2: adding one more error of severity low, medium or high to an error list
\* never increases the score calculate_score returns for the same word count.
C2_ScoreMonotone ==
    [][(/\ Len(errors') = Len(errors) + 1
        /\ SubSeq(errors', 1, Len(errors)) = errors
        /\ errors'[Len(errors')].severity \in {"low", "medium", "high"}
        /\ word_count' = word_count)
       => score' <= score]_vars

C2_Witness ==
    /\ word_count > 0
    /\ Len(errors) = 2
    /\ errors[1].severity = "high"
    /\ errors[2].severity = "low"
    /\ score = 82

(***************************************************************************)
(* Properties of an analysis request (specifications Spec, SpecMissing).   *)
(***************************************************************************)
ExpectedWords == split(matched_ayah.text)
TranscribedWords == transcribed_words_of(segments)
E == Len(ExpectedWords)
T == Len(TranscribedWords)

AcousticDetectors ==
    {"detect_madd_errors", "detect_ghunnah_errors", "detect_qalqalah_errors"}

SubstitutionOutcome == detect_substituted_letters(TranscribedWords, ExpectedWords, segments)
MissingOutcome == detect_missing_words(TranscribedWords, ExpectedWords, segments)
MaddOutcome == detect_madd_errors(audio_path, matched_ayah.text, segments)
GhunnahOutcome == detect_ghunnah_errors(audio_path, matched_ayah.text, segments)
QalqalahOutcome == detect_qalqalah_errors(audio_path, matched_ayah.text, segments)

Dicts(errs) == [k \in 1..Len(errs) |-> error_to_dict(errs[k])]

\* C3: no exception of a detector propagates to the caller of analyze_tajweed:
\* whatever the expected text and the word entries (malformed ones included),
\* the analysis returns a result object.
C3_NoExceptionPropagates ==
    ret.fn = "analyze_tajweed" => ~ret.raised

\* C4: an acoustic detector that fails with an unexpected exception part-way
\* through its scan contributes the empty list, not the errors it had
\* accumulated before the failure.
C4_FailedDetectorFoundNothing ==
    (ret.fn \in AcousticDetectors /\ ret.value.log = "error") => ret.value.errors = <<>>

\* C5: without librosa each acoustic detector returns the empty list without
\* raising, and analyze_tajweed still returns a result, whose errors and score
\* are those of the substitution and missing-word detectors alone.
C5_DegradesWithoutLibrosa ==
    audio_path.librosa = "missing" =>
        /\ ret.fn \in AcousticDetectors => ~ret.raised /\ ret.value.errors = <<>>
        /\ ret.fn = "analyze_tajweed" =>
              /\ ~ret.raised
              /\ LET text_errors == SubstitutionOutcome.errors \o MissingOutcome.errors
                 IN  /\ ret.value.errors = Dicts(text_errors)
                     /\ ret.value.score = calculate_score(text_errors, E)

\* C6: when the expected text has no words, analyze_tajweed raises nothing
\* and returns no errors, the score 0.0 and the lowest band's recommendation,
\* whatever the transcribed segments contain.
C6_ZeroExpectedWords ==
    (ret.fn = "analyze_tajweed" /\ E = 0) =>
        /\ ~ret.raised
        /\ ret.value.errors = <<>>
        /\ ret.value.score = 0
        /\ ret.value.recommendation = MSG_REVIEW

C6_Witness ==
    /\ ret.fn = "analyze_tajweed"
    /\ matched_ayah.text = <<" ">>
    /\ T = 2
    /\ Get(TranscribedWords[1], "word", <<>>) = NoneWord
    /\ audio_path.librosa = "ok"
    /\ ret.value.score = 0

Lower(c) ==
    LET upper == <<"A", "B", "C", "D", "E", "F", "G", "H", "I", "J", "K", "L", "M",
                   "N", "O", "P", "Q", "R", "S", "T", "U", "V", "W", "X", "Y", "Z">>
        lower == <<"a", "b", "c", "d", "e", "f", "g", "h", "i", "j", "k", "l", "m",
                   "n", "o", "p", "q", "r", "s", "t", "u", "v", "w", "x", "y", "z">>
    IN  IF InList(c, upper) THEN lower[CHOOSE k \in 1..Len(upper) : upper[k] = c] ELSE c

\* needle in message.lower()
ContainsLower(needle, message) ==
    \E k \in 0..(Len(message) - Len(needle)) :
        \A m \in 1..Len(needle) : Lower(message[k + m]) = needle[m]

\* C7: when the expected text has at least one word and all five detectors
\* return no errors, analyze_tajweed returns no errors, the score 1.0 and a
\* recommendation that contains "excellent", case-insensitively.
C7_PerfectRecitation ==
    (/\ ret.fn = "analyze_tajweed"
     /\ E >= 1
     /\ \A outcome \in {SubstitutionOutcome, MissingOutcome, MaddOutcome, GhunnahOutcome,
                        QalqalahOutcome} : ~outcome.raised /\ outcome.errors = <<>>)
    => /\ ~ret.raised
       /\ ret.value.errors = <<>>
       /\ ret.value.score = 100
       /\ ContainsLower(<<"e", "x", "c", "e", "l", "l", "e", "n", "t">>,
                        ret.value.recommendation)

C7_Witness ==
    /\ ret.fn = "analyze_tajweed"
    /\ audio_path.librosa = "ok"
    /\ ExpectedWords = <<<<"meem", "fatha", "alef">>, <<"qaf", "tah">>>>
    /\ audio_path.madd_voiced_pct = 100
    /\ T = 2
    /\ Get(TranscribedWords[1], "start", NoneNumber) = 0
    /\ Get(TranscribedWords[1], "end", NoneNumber) = 600
    /\ Get(TranscribedWords[2], "word", <<>>) = <<"qaf", "tah">>
    /\ Get(TranscribedWords[2], "end", NoneNumber) = 1200
    /\ ~ret.raised
    /\ ret.value.errors = <<>>
    /\ ret.value.score = 100

\* C8: detect_missing_words with T transcribed and E expected words returns
\* exactly max(0, E - T) errors, one for each expected index i with T <= i < E,
\* in increasing order, each of type missing_word with expected = the i-th
\* expected word, word_index = i, severity high, confidence 0.8 and
\* start_time = end_time = 0.
C8_MissingWords ==
    ret.fn = "detect_missing_words" =>
        /\ ~ret.raised
        /\ Len(ret.value.errors) = Max(0, E - T)
        /\ \A k \in 1..Len(ret.value.errors) :
              LET i == T + k - 1
                  error == ret.value.errors[k]
              IN  /\ error.type = "missing_word"
                  /\ error.expected = ExpectedWords[i + 1]
                  /\ error.word_index = i
                  /\ error.severity = "high"
                  /\ error.confidence = 80
                  /\ error.start_time = 0
                  /\ error.end_time = 0

C8_Witness ==
    /\ ret.fn = "detect_missing_words"
    /\ E = 4 /\ T = 2
    /\ Len(ret.value.errors) = 2
    /\ ret.value.errors[1].word_index = 2
    /\ ret.value.errors[2].word_index = 3

\* The character positions (1-based) of expected word i whose pair of characters
\* is a substitution: no diacritic on either side, different, and in the table.
ConfusedPositions(i) ==
    LET expected_word == ExpectedWords[i]
        transcribed == Get(TranscribedWords[i], "word", <<>>)
    IN  {j \in 1..Min(Len(expected_word), Len(transcribed)) :
            /\ ~is_diacritic(expected_word[j])
            /\ ~is_diacritic(transcribed[j])
            /\ expected_word[j] # transcribed[j]
            /\ <<expected_word[j], transcribed[j]>> \in
                  {<<"qaf", "kaf">>, <<"qaf", "ghain">>, <<"tah", "teh">>, <<"tah", "dal">>,
                   <<"sad", "seen">>, <<"sad", "zain">>, <<"dad", "dal">>, <<"dad", "zah">>,
                   <<"zah", "thal">>, <<"zah", "dad">>, <<"ain", "alef">>, <<"ain", "hamza">>,
                   <<"hah", "heh">>, <<"hah", "khah">>, <<"thal", "zain">>, <<"thal", "zah">>,
                   <<"theh", "seen">>, <<"theh", "teh">>}}

RECURSIVE Ascending(_)
Ascending(S) ==
    IF S = {} THEN <<>>
    ELSE LET least == CHOOSE x \in S : \A y \in S : x <= y
         IN  <<least>> \o Ascending(S \ {least})

\* The (word, position) pairs of all substitutions, in scan order.
RECURSIVE ConfusedPairs(_)
ConfusedPairs(i) ==
    IF i > Min(E, T) THEN <<>>
    ELSE LET positions == Ascending(ConfusedPositions(i))
         IN  [k \in 1..Len(positions) |-> <<i, positions[k]>>] \o ConfusedPairs(i + 1)

\* C9: detect_substituted_letters compares expected word i with transcribed
\* word i and emits one substituted_letter error for each character position
\* where neither character is a diacritic, the two differ and the pair is in
\* the confused-letters table, and no other error; each error has word_index
\* i, the two characters as expected and detected, severity high, confidence
\* 0.75 and the i-th transcribed word's start and end time.
C9_SubstitutedLetters ==
    (ret.fn = "detect_substituted_letters" /\ ~ret.raised) =>
        LET pairs == ConfusedPairs(1)
        IN  /\ Len(ret.value.errors) = Len(pairs)
            /\ \A k \in 1..Len(pairs) :
                  LET i == pairs[k][1]
                      j == pairs[k][2]
                      error == ret.value.errors[k]
                  IN  /\ error.type = "substituted_letter"
                      /\ error.word_index = i - 1
                      /\ error.expected = <<ExpectedWords[i][j]>>
                      /\ error.detected = <<TranscribedWords[i].word[j]>>
                      /\ error.letter = ExpectedWords[i][j]
                      /\ error.severity = "high"
                      /\ error.confidence = 75
                      /\ error.start_time = Get(TranscribedWords[i], "start", 0)
                      /\ error.end_time = Get(TranscribedWords[i], "end", 0)

\* expected U+0642 U+064F U+0644 U+0652, transcribed U+0643 U+064F U+0644 U+0652
C9_Witness ==
    /\ ret.fn = "detect_substituted_letters"
    /\ ExpectedWords = <<<<"qaf", "damma", "lam", "sukun">>>>
    /\ T = 1
    /\ TranscribedWords[1] = [word |-> <<"kaf", "damma", "lam", "sukun">>,
                              start |-> 0, end |-> 600]
    /\ Len(ret.value.errors) = 1
    /\ ret.value.errors[1].expected = <<"qaf">>
    /\ ret.value.errors[1].detected = <<"kaf">>
    /\ ret.value.errors[1].start_time = 0
    /\ ret.value.errors[1].end_time = 600

Detectors ==
    AcousticDetectors \cup {"detect_substituted_letters", "detect_missing_words"}

\* C10: for an expected word whose index is beyond the available word
\* timings no detector raises or fails: an exception comes only from a word
\* entry that exists; the substitution, madd, ghunnah and qalqalah detectors
\* emit no error for that word, and the missing-word detector emits one error
\* for it, with a zero-length time window.
C10_BeyondWordTimings ==
    ret.fn \in Detectors =>
        /\ (ret.raised \/ ret.value.log = "error") =>
              \/ audio_path.librosa = "load_fails" /\ ret.fn \in AcousticDetectors
              \/ \E j \in 1..Min(E, T) :
                    \/ Get(TranscribedWords[j], "word", <<>>) = NoneWord
                    \/ Get(TranscribedWords[j], "start", 0) = NoneNumber
        /\ \A i \in T..(E - 1) :
              LET reported == {k \in 1..Len(ret.value.errors) :
                                  ret.value.errors[k].word_index = i}
              IN  IF ret.fn = "detect_missing_words"
                  THEN /\ Cardinality(reported) = 1
                       /\ \A k \in reported :
                             /\ ret.value.errors[k].start_time = 0
                             /\ ret.value.errors[k].end_time = 0
                  ELSE reported = {}

C10_Witness ==
    /\ ret.fn = "detect_madd_errors"
    /\ audio_path.librosa = "ok"
    /\ ExpectedWords = <<<<"meem", "fatha", "alef">>, <<"meem", "fatha", "alef">>>>
    /\ T = 1
    /\ Len(ret.value.errors) = 1
    /\ ret.value.errors[1].type = "madd_short"
    /\ ret.value.errors[1].word_index = 0

\* C11: every error record in the result of analyze_tajweed is well formed:
\* its type is one of the eleven TajweedErrorType values, its severity is low,
\* medium or high, its confidence lies in [0,1], its word_index is an index of
\* the expected word sequence, and, when every word timing has start < end,
\* its start_time and end_time are times with start_time <= end_time.
WellTimed ==
    \A k \in 1..T :
        /\ {"start", "end"} \subseteq DOMAIN TranscribedWords[k]
        /\ TranscribedWords[k].start # NoneNumber
        /\ TranscribedWords[k].end # NoneNumber
        /\ TranscribedWords[k].start < TranscribedWords[k].end

C11_WellFormedErrors ==
    (ret.fn = "analyze_tajweed" /\ ~ret.raised) =>
        \A k \in 1..Len(ret.value.errors) :
            LET error == ret.value.errors[k]
            IN  /\ error.type \in TajweedErrorType
                /\ error.severity \in {"low", "medium", "high"}
                /\ error.confidence \in 0..100
                /\ error.word_index \in 0..(E - 1)
                /\ WellTimed =>
                      /\ error.start_time # NoneNumber /\ error.end_time # NoneNumber
                      /\ 0 <= error.start_time
                      /\ error.start_time <= error.end_time

C11_Witness ==
    /\ ret.fn = "analyze_tajweed"
    /\ ~ret.raised
    /\ WellTimed
    /\ E = 2 /\ T = 1
    /\ {ret.value.errors[k].type : k \in 1..Len(ret.value.errors)}
           = {"substituted_letter", "missing_word", "qalqalah_missing"}
    /\ \E k \in 1..Len(ret.value.errors) :
           ret.value.errors[k].start_time < ret.value.errors[k].end_time

(***************************************************************************)
(* Properties of the text functions (specification SpecText).              *)
(***************************************************************************)
\* C12: the operation list phoneme_levenshtein(a, b) returns covers every
\* index of a exactly once as source and every index of b exactly once as
\* target, matches included: each index of a is the index of exactly one
\* operation that consumes a token of a (match, substitution or the
\* operation on a's token alone), and as many operations consume a token of
\* b as b has tokens.
C12_AlignmentComplete ==
    ret.fn = "phoneme_levenshtein" =>
        LET ops == ret.value.operations
            on_source(i) == {k \in 1..Len(ops) :
                                /\ ops[k].type \in {"match", "substitution", "insertion"}
                                /\ ops[k].index = i}
            on_target == {k \in 1..Len(ops) :
                             ops[k].type \in {"match", "substitution", "deletion"}}
        IN  /\ \A i \in 0..(Len(phonemes1) - 1) : Cardinality(on_source(i)) = 1
            /\ Cardinality(on_target) = Len(phonemes2)

\* The least number of unit-cost edits between two sequences, by definition:
\* drop the head of a, drop the head of b, or pair the two heads (free when
\* they are equal).
RECURSIVE EditDistance(_, _)
EditDistance(a, b) ==
    IF a = <<>> THEN Len(b)
    ELSE IF b = <<>> THEN Len(a)
    ELSE Min(Min(1 + EditDistance(Tail(a), b), 1 + EditDistance(a, Tail(b))),
             (IF Head(a) = Head(b) THEN 0 ELSE 1) + EditDistance(Tail(a), Tail(b)))

\* C13: the distance phoneme_levenshtein(a, b) returns is the minimum number
\* of unit-cost substitutions, insertions and deletions between a and b, its
\* backtrack stops only at (0,0), and it returns exactly that many
\* substitution, insertion and deletion operations.
C13_MinimalDistance ==
    ret.fn = "phoneme_levenshtein" =>
        LET stop == backtrack(phonemes1, phonemes2, Len(phonemes1), Len(phonemes2), <<>>)
        IN  /\ ret.value.distance = EditDistance(phonemes1, phonemes2)
            /\ stop.i = 0 /\ stop.j = 0
            /\ Len(ret.value.operations) = ret.value.distance
            /\ \A k \in 1..Len(ret.value.operations) :
                  ret.value.operations[k].type \in {"substitution", "insertion", "deletion"}

C13_Witness ==
    /\ ret.fn = "phoneme_levenshtein"
    /\ phonemes1 = <<"q", "aa", "q">>
    /\ phonemes2 = <<"k", "aa">>
    /\ ret.value.distance = 2
    /\ ret.value.operations[1].type = "substitution"
    /\ ret.value.operations[2].type = "insertion"

\* The script the priority match, substitution, deletion, insertion fixes,
\* read off the same matrix from cell (i, j) back to (0,0).
RECURSIVE PriorityScript(_, _, _, _)
PriorityScript(p1, p2, i, j) ==
    IF i = 0 /\ j = 0 THEN <<>>
    ELSE IF i > 0 /\ j > 0 /\ p1[i] = p2[j] THEN PriorityScript(p1, p2, i - 1, j - 1)
    ELSE IF i > 0 /\ j > 0 /\ dp(p1, p2, i, j) = dp(p1, p2, i - 1, j - 1) + 1
    THEN Append(PriorityScript(p1, p2, i - 1, j - 1),
                [type |-> "substitution", index |-> i - 1,
                 expected |-> p2[j], detected |-> p1[i]])
    ELSE IF j > 0 /\ dp(p1, p2, i, j) = dp(p1, p2, i, j - 1) + 1
    THEN Append(PriorityScript(p1, p2, i, j - 1),
                [type |-> "deletion", index |-> j - 1, expected |-> p2[j]])
    ELSE Append(PriorityScript(p1, p2, i - 1, j),
                [type |-> "insertion", index |-> i - 1, detected |-> p1[i]])

\* C14: when several minimal scripts exist, the backtrace prefers a match,
\* then a substitution, then a deletion, then an insertion, so the operation
\* list returned is the script that priority fixes.
C14_TieBreakOrder ==
    ret.fn = "phoneme_levenshtein" =>
        LET script == PriorityScript(phonemes1, phonemes2, Len(phonemes1), Len(phonemes2))
        IN  /\ Len(ret.value.operations) = Len(script)
            /\ \A k \in 1..Len(script) :
                  /\ ret.value.operations[k].type = script[k].type
                  /\ ret.value.operations[k].index = script[k].index

\* C15 as amended: phoneme_similarity(a, b) lies in [0,1] for all texts, and
\* phoneme_similarity(a, a) is 1.0 whenever the phoneme sequence of a is not
\* empty.
C15_SimilarityBounds ==
    ret.fn = "phoneme_similarity" =>
        LET similarity == ret.value.similarity
        IN  /\ similarity[2] > 0
            /\ 0 <= similarity[1] /\ similarity[1] <= similarity[2]
            /\ (text1 = text2 /\ arabic_to_phonemes(text1) # <<>>)
                  => similarity[1] = similarity[2]

C15_Witness ==
    /\ ret.fn = "phoneme_similarity"
    /\ text1 = <<"beh", "sukun">>
    /\ text2 = text1
    /\ ret.value.similarity = <<1, 1>>

\* C15 as stated: phoneme_similarity(a, b) lies in [0,1], and
\* phoneme_similarity(a, a) is 1.0 whenever a is not empty.
C15_SimilarityOfNonEmptyText ==
    ret.fn = "phoneme_similarity" =>
        LET similarity == ret.value.similarity
        IN  /\ 0 <= similarity[1] /\ similarity[1] <= similarity[2]
            /\ (text1 = text2 /\ text1 # <<>>) => similarity[1] = similarity[2]

\* C16: normalize_arabic_text is idempotent on every text over letters,
\* diacritics, the Alef, Yeh and Teh Marbuta variants and whitespace.
C16_NormalizeIdempotent ==
    ret.fn = "normalize_arabic_text" =>
        normalize_arabic_text(ret.value.text) = ret.value.text

C16_Witness ==
    /\ ret.fn = "normalize_arabic_text"
    /\ text1 = <<"alef_hamza_above", "fatha", "teh_marbuta">>
    /\ ret.value.text = <<"alef", "heh">>

\* C17: whenever a mapped consonant is immediately followed by shadda,
\* arabic_to_phonemes emits the consonant's phoneme twice, as two tokens, and
\* no token for the shadda.
C17_GeminationTwoTokens ==
    (/\ ret.fn = "arabic_to_phonemes"
     /\ Len(text1) = 2
     /\ text1[1] \in DOMAIN ARABIC_PHONEMES
     /\ text1[2] = "shadda")
    => ret.value.phonemes = <<ARABIC_PHONEMES[text1[1]], ARABIC_PHONEMES[text1[1]]>>

(***************************************************************************)
(* Properties of the acoustic detectors (specification SpecAcoustic).      *)
(***************************************************************************)
\* the occurrences <<word_index, char_index>> of the letters in the expected text
Occurrences(letters) ==
    {occ \in (0..(E - 1)) \X (0..3) :
        /\ occ[2] < Len(ExpectedWords[occ[1] + 1])
        /\ ExpectedWords[occ[1] + 1][occ[2] + 1] \in letters}

LetterAt(occ) == ExpectedWords[occ[1] + 1][occ[2] + 1]

\* the word's ASR span, and the character's share of it
SpanStart(occ) == TranscribedWords[occ[1] + 1].start
SpanEnd(occ) == TranscribedWords[occ[1] + 1].end
CharWidth(occ) == (SpanEnd(occ) - SpanStart(occ)) \div Len(ExpectedWords[occ[1] + 1])
WindowStart(occ) ==
    SpanStart(occ)
    + ((SpanEnd(occ) - SpanStart(occ)) * occ[2]) \div Len(ExpectedWords[occ[1] + 1])

\* the window [from, to) of an occurrence can be analysed: the word has an ASR
\* span of positive length and the window lies within the recording
Analysable(occ, from, to) ==
    /\ occ[1] < T
    /\ SpanStart(occ) < SpanEnd(occ)
    /\ from < to
    /\ SR * to <= audio_path.samples

ErrorsAt(errs, occ) ==
    {k \in 1..Len(errs) :
        /\ errs[k].word_index = occ[1]
        /\ errs[k].letter = LetterAt(occ)
        /\ errs[k].start_time = WindowStart(occ)}

MaddWindowEnd(occ) == WindowStart(occ) + CharWidth(occ)

MaddMeasured(occ) == voiced_duration(SR * CharWidth(occ), audio_path.madd_voiced_pct)

\* C18: for each occurrence of a madd letter whose window could be analysed,
\* detect_madd_errors emits madd_short (confidence 0.75, severity medium) iff
\* the measured voiced duration is below 0.15 s, madd_long (0.70, low) iff it
\* is above 0.60 s, and nothing otherwise; an occurrence has at most one
\* error, its window starts at start + duration * char_index / word_length,
\* is one average character wide and lies inside the word's ASR span; the
\* detector emits no other error.
C18_MaddClassification ==
    ret.fn = "detect_madd_errors" =>
        LET errs == ret.value.errors
            madds == Occurrences({"alef", "waw", "yeh", "alef_maksura"})
        IN  /\ \A occ \in madds :
                   LET found == ErrorsAt(errs, occ)
                       measured == MaddMeasured(occ)
                   IN  /\ Cardinality(found) <= 1
                       /\ IF Analysable(occ, WindowStart(occ), MaddWindowEnd(occ))
                          THEN /\ (\E k \in found : errs[k].type = "madd_short")
                                      <=> measured < 150
                               /\ (\E k \in found : errs[k].type = "madd_long")
                                      <=> measured > 600
                               /\ (found = {}) <=> (150 <= measured /\ measured <= 600)
                          ELSE found = {}
                       /\ \A k \in found :
                              /\ errs[k].end_time = MaddWindowEnd(occ)
                              /\ SpanStart(occ) <= errs[k].start_time
                              /\ errs[k].end_time <= SpanEnd(occ)
                              /\ errs[k].type = "madd_short"
                                     => errs[k].confidence = 75 /\ errs[k].severity = "medium"
                              /\ errs[k].type = "madd_long"
                                     => errs[k].confidence = 70 /\ errs[k].severity = "low"
            /\ \A k \in 1..Len(errs) :
                   /\ errs[k].type \in {"madd_short", "madd_long"}
                   /\ \E occ \in madds : k \in ErrorsAt(errs, occ)

\* a short madd and a long madd in one call
C18_Witness ==
    /\ ret.fn = "detect_madd_errors"
    /\ ExpectedWords = <<<<"meem", "fatha", "alef">>, <<"alef">>>>
    /\ T = 2
    /\ audio_path.madd_voiced_pct = 50
    /\ MaddMeasured(<<0, 2>>) = 100
    /\ MaddMeasured(<<1, 0>>) = 1200
    /\ Len(ret.value.errors) = 2
    /\ ret.value.errors[1].type = "madd_short"
    /\ ret.value.errors[1].start_time = 400
    /\ ret.value.errors[1].end_time = 600
    /\ ret.value.errors[2].type = "madd_long"
    /\ ret.value.errors[2].start_time = 2400
    /\ ret.value.errors[2].end_time = 4800

\* the noon/meem occurrences the ghunnah rule applies to
RequiresGhunnah(occ) ==
    LET word == ExpectedWords[occ[1] + 1]
    IN  \/ occ[2] = Len(word) - 1
        \/ (occ[2] + 2 <= Len(word) /\ word[occ[2] + 2] \in {"shadda", "sukun"})

GhunnahWindowEnd(occ) ==
    IF WindowStart(occ) + 300 < SpanEnd(occ) THEN WindowStart(occ) + 300 ELSE SpanEnd(occ)

GhunnahMeasured(occ) ==
    voiced_duration(SR * (GhunnahWindowEnd(occ) - WindowStart(occ)),
                    audio_path.ghunnah_voiced_pct)

\* C19: detect_ghunnah_errors examines exactly the noon/meem occurrences that
\* are followed by shadda, are the last character of their word or are
\* followed by sukun; for each such occurrence that can be analysed it emits
\* ghunnah_missing (confidence 0.70, severity medium) iff the nasal-band /
\* total-band energy ratio is below 0.3, otherwise ghunnah_short (0.65, low)
\* iff the voiced duration is below 0.12 s, otherwise nothing; an occurrence
\* never has both errors, and the detector emits no other error.
C19_GhunnahClassification ==
    ret.fn = "detect_ghunnah_errors" =>
        LET errs == ret.value.errors
            nasals == Occurrences({"noon", "meem"})
            nasal_ratio == audio_path.nasal_pct
        IN  /\ \A occ \in nasals :
                   LET found == ErrorsAt(errs, occ)
                       measured == GhunnahMeasured(occ)
                   IN  /\ Cardinality(found) <= 1
                       /\ IF /\ RequiresGhunnah(occ)
                             /\ Analysable(occ, WindowStart(occ), GhunnahWindowEnd(occ))
                          THEN /\ (\E k \in found : errs[k].type = "ghunnah_missing")
                                      <=> nasal_ratio < 30
                               /\ (\E k \in found : errs[k].type = "ghunnah_short")
                                      <=> (nasal_ratio >= 30 /\ measured < 120)
                               /\ (found = {}) <=> (nasal_ratio >= 30 /\ measured >= 120)
                          ELSE found = {}
                       /\ \A k \in found :
                              /\ errs[k].type = "ghunnah_missing"
                                     => errs[k].confidence = 70 /\ errs[k].severity = "medium"
                              /\ errs[k].type = "ghunnah_short"
                                     => errs[k].confidence = 65 /\ errs[k].severity = "low"
            /\ \A k \in 1..Len(errs) :
                   /\ errs[k].type \in {"ghunnah_missing", "ghunnah_short"}
                   /\ \E occ \in nasals : RequiresGhunnah(occ) /\ k \in ErrorsAt(errs, occ)

\* a meem before kasra that is not examined and a noon before sukun whose
\* nasal ratio is exactly 0.3 and whose voiced duration is short
C19_Witness ==
    /\ ret.fn = "detect_ghunnah_errors"
    /\ ExpectedWords = <<<<"meem", "kasra", "noon", "sukun">>>>
    /\ T = 1
    /\ ~RequiresGhunnah(<<0, 0>>)
    /\ RequiresGhunnah(<<0, 2>>)
    /\ audio_path.nasal_pct = 30
    /\ GhunnahMeasured(<<0, 2>>) = 88
    /\ Len(ret.value.errors) = 1
    /\ ret.value.errors[1].type = "ghunnah_short"
    /\ ret.value.errors[1].letter = "noon"
    /\ ret.value.errors[1].start_time = 300

(***************************************************************************)
(* Properties of the recommendation (specification SpecRecommend).         *)
(***************************************************************************)
\* the bands as the score ranges [from, to) in hundredths
RecommendationBands ==
    {[name |-> "excellent", from |-> 95, to |-> 101],
     [name |-> "very good", from |-> 85, to |-> 95],
     [name |-> "good effort", from |-> 70, to |-> 85],
     [name |-> "needs practice", from |-> 50, to |-> 70],
     [name |-> "review", from |-> 0, to |-> 50]}

BandsOf(s) == {band \in RecommendationBands : band.from <= s /\ s < band.to}

BandMessage(name, focus_areas) ==
    CASE name = "excellent" -> MSG_EXCELLENT
      [] name = "very good" -> MSG_VERY_GOOD
      [] name = "good effort" -> MSG_GOOD \o focus_areas
      [] name = "needs practice" -> MSG_NEEDS_PRACTICE \o focus_areas
      [] name = "review" -> MSG_REVIEW

\* C20: generate_recommendation selects its band from the score alone: a
\* score >= 0.95 gives the excellent message, 0.85 <= score < 0.95 the
\* very-good message, 0.70 <= score < 0.85 the good-effort message with the
\* focus areas, 0.50 <= score < 0.70 the needs-practice message with the
\* focus areas, a score < 0.50 the review-with-a-teacher message; every
\* score of [0, 1] lies in exactly one band.
C20_RecommendationBands ==
    /\ Cardinality(BandsOf(score)) = 1
    /\ ret.fn = "generate_recommendation" =>
           \A band \in BandsOf(score) :
               ret.value.recommendation = BandMessage(band.name, get_focus_areas(errors))

\* the lowest score of the good-effort band, with one kind of error
C20_Witness ==
    /\ ret.fn = "generate_recommendation"
    /\ score = 70
    /\ Len(errors) = 2
    /\ ret.value.recommendation = MSG_GOOD \o <<"elongation (madd)">>

\* the part of the madd window that lies within the recording
ClampedMaddMeasured(occ) ==
    voiced_duration(Min(SR * MaddWindowEnd(occ), audio_path.samples) - SR * WindowStart(occ),
                    audio_path.madd_voiced_pct)

\* C22: a window that reaches past the end of the audio buffer is clamped to
\* the buffer and its clamped part is analysed: a madd whose window starts
\* within the recording is classified by the voiced duration measured on the
\* part of the window that the recording holds, and no window makes the
\* detector raise.
C22_WindowClamped ==
    ret.fn = "detect_madd_errors" =>
        /\ ~ret.raised
        /\ \A occ \in Occurrences({"alef", "waw", "yeh", "alef_maksura"}) :
               (/\ occ[1] < T
                /\ SpanStart(occ) < SpanEnd(occ)
                /\ SR * WindowStart(occ) < audio_path.samples) =>
                   /\ (\E k \in ErrorsAt(ret.value.errors, occ) :
                          ret.value.errors[k].type = "madd_short")
                      <=> ClampedMaddMeasured(occ) < 150
                   /\ (\E k \in ErrorsAt(ret.value.errors, occ) :
                          ret.value.errors[k].type = "madd_long")
                      <=> ClampedMaddMeasured(occ) > 600

(***************************************************************************)
(* Properties of the configuration (specification SpecConfigured).         *)
(***************************************************************************)
\* C21: the detectors take their thresholds from the configuration: a madd
\* whose window could be analysed is reported as madd_short iff its measured
\* voiced duration is below the configured madd_short_threshold, and a
\* nasalized ghunnah is reported as ghunnah_short iff its measured voiced
\* duration is below the configured ghunnah_min_duration, so that changing a
\* configured value changes which durations are reported.
C21_ThresholdsFromConfiguration ==
    /\ ret.fn = "detect_madd_errors" =>
           \A occ \in Occurrences({"alef", "waw", "yeh", "alef_maksura"}) :
               Analysable(occ, WindowStart(occ), MaddWindowEnd(occ)) =>
                   ((\E k \in ErrorsAt(ret.value.errors, occ) :
                        ret.value.errors[k].type = "madd_short")
                    <=> MaddMeasured(occ) < settings.MADD_SHORT_THRESHOLD)
    /\ ret.fn = "detect_ghunnah_errors" =>
           \A occ \in Occurrences({"noon", "meem"}) :
               (/\ RequiresGhunnah(occ)
                /\ Analysable(occ, WindowStart(occ), GhunnahWindowEnd(occ))
                /\ audio_path.nasal_pct >= 30) =>
                   ((\E k \in ErrorsAt(ret.value.errors, occ) :
                        ret.value.errors[k].type = "ghunnah_short")
                    <=> GhunnahMeasured(occ) < settings.GHUNNAH_MIN_DURATION)

C24_InvalidWordIndexIs400 ==
    (/\ ret.fn = "quick_analyze"
     /\ request.audio = "ok"
     /\ get_ayah_text(request.surah, request.ayah) # NoneWord
     /\ \/ request.target_word_index < 0
        \/ request.target_word_index
              >= Len(split(get_ayah_text(request.surah, request.ayah))))
    => (ret.raised /\ ret.value.status_code = 400)

(***************************************************************************)
(* Properties of calculate_sm2 (specification SpecSm2).                    *)
(***************************************************************************)
\* the quality clamped to 0..5
Clamped(quality) == IF quality < 0 THEN 0 ELSE IF quality > 5 THEN 5 ELSE quality

\* EF + 0.1 - (5 - q) * (0.08 + (5 - q) * 0.02), in hundredths
Sm2Easiness(ef, q) == ef + 10 - (5 - q) * (8 + (5 - q) * 2)

\* ceil(interval * ef) for the float ef returned: the decimal ceiling, and
\* one more where the product is whole in decimal and the float lies above it
CeilOfProduct(interval, ef, rounding) ==
    LET whole == CHOOSE n \in 0..(interval * ef) :
                    100 * n >= interval * ef /\ 100 * (n - 1) < interval * ef
    IN  IF 100 * whole = interval * ef /\ rounding = "above" THEN whole + 1 ELSE whole

ReviewsProcessed(item_id) == Cardinality({k \in 1..Len(calls) : calls[k] = item_id})

\* C26: after any sequence of processed reviews a stored practice item has
\* easiness_factor >= 1.3, interval >= 1 and repetitions >= 0; repetitions 0 or
\* 1 go with interval 1 and repetitions 2 with interval 6; successful_attempts
\* <= total_attempts, and total_attempts is the number of reviews processed
\* for the item.
C26_ItemInvariants ==
    \A id \in DOMAIN practice_items_db :
        LET item == practice_items_db[id]
        IN  /\ item.easiness_factor >= 130
            /\ item.interval >= 1
            /\ item.repetitions >= 0
            /\ item.repetitions \in {0, 1} => item.interval = 1
            /\ item.repetitions = 2 => item.interval = 6
            /\ item.successful_attempts <= item.total_attempts
            /\ item.total_attempts = ReviewsProcessed(id)

\* an item failed once and then reviewed successfully twice
C26_Witness ==
    \E id \in DOMAIN practice_items_db :
        /\ practice_items_db[id].total_attempts = 3
        /\ practice_items_db[id].successful_attempts = 2
        /\ practice_items_db[id].repetitions = 2
        /\ practice_items_db[id].easiness_factor < EF_DEFAULT


\* C27: a review submission or a delete request authenticated as one user never
\* changes or removes a practice item whose user_id is a different user.
C27_OwnerOnly ==
    [][request'.endpoint \in {"review", "delete"} =>
          \A id \in DOMAIN practice_items_db :
              practice_items_db[id].user_id # request'.user_id =>
                  /\ id \in DOMAIN practice_items_db'
                  /\ practice_items_db'[id] = practice_items_db[id]]_vars


Positions(queue, item_id) == {k \in 1..Len(queue) : queue[k] = item_id}

\* C28: a user's practice queue never holds two items with the same (surah,
\* ayah, error_type); every id in a user's queue is a key of practice_items_db
\* whose user_id is that user; every stored item appears in exactly one queue
\* exactly once.
C28_QueueConsistency ==
    /\ \A user \in DOMAIN user_queues_db :
           LET queue == user_queues_db[user]
           IN  /\ \A k \in 1..Len(queue) :
                      /\ queue[k] \in DOMAIN practice_items_db
                      /\ practice_items_db[queue[k]].user_id = user
               /\ \A k, n \in 1..Len(queue) :
                      k # n =>
                          <<practice_items_db[queue[k]].surah,
                            practice_items_db[queue[k]].ayah,
                            practice_items_db[queue[k]].error_type>>
                          # <<practice_items_db[queue[n]].surah,
                              practice_items_db[queue[n]].ayah,
                              practice_items_db[queue[n]].error_type>>
    /\ \A id \in DOMAIN practice_items_db :
           \E user \in DOMAIN user_queues_db :
               /\ Cardinality(Positions(user_queues_db[user], id)) = 1
               /\ \A other \in DOMAIN user_queues_db \ {user} :
                      Positions(user_queues_db[other], id) = {}

\* after a delete and a review, an add-errors request naming an error type
\* twice, which the user's queue already holds, adds nothing
C28_Witness ==
    /\ request.endpoint = "add-errors"
    /\ Len(request.errors) = 2
    /\ request.errors[1] = request.errors[2]
    /\ ret.value.added_count = 0
    /\ calls # <<>>
    /\ uuids > Cardinality(DOMAIN practice_items_db)
    /\ Len(user_queues_db[request.user_id]) = 1


(***************************************************************************)
(* Properties of registration                                              *)
(***************************************************************************)
Registered(email) == {id \in DOMAIN users_db : users_db[id].email = email}

\* C29: no two entries of users_db share an email; registering an email that is
\* already present fails with HTTP 400 and leaves users_db unchanged; a
\* successful registration adds exactly one entry.
C29_UniqueEmails ==
    /\ [](\A id, other \in DOMAIN users_db :
              users_db[id].email = users_db[other].email => id = other)
    /\ [][request'.endpoint = "register" =>
              IF Registered(request'.email) # {}
              THEN /\ ret'.value.raised
                   /\ ret'.value.status_code = 400
                   /\ users_db' = users_db
              ELSE /\ ~ret'.value.raised
                   /\ \E id \in DOMAIN users_db' \ DOMAIN users_db :
                          /\ DOMAIN users_db' = DOMAIN users_db \cup {id}
                          /\ users_db'[id].email = request'.email
                   /\ \A id \in DOMAIN users_db : users_db'[id] = users_db[id]]_vars

\* with two users registered, a registration of one of their emails was refused
C29_Witness ==
    /\ request.endpoint = "register"
    /\ ret.value.raised
    /\ ret.value.status_code = 400
    /\ Cardinality(DOMAIN users_db) = 2
    /\ Registered(request.email) # {}


(***************************************************************************)
(* Properties of the word alignment                                        *)
(***************************************************************************)
Alignments == ret.value.alignments

\* the entry's word is None exactly when its index is None, and otherwise the
\* word of the list at that index
WordOfIndex(word, index, words) ==
    /\ word = None <=> index = NoneNumber
    /\ index # NoneNumber => word = words[index + 1]

\* C30: in every entry returned by get_word_alignment(transcribed, expected)
\* transcribed_word is None exactly when transcribed_index is None and
\* otherwise is transcribed[transcribed_index], likewise expected_word and
\* expected_index; every index of both lists appears in exactly one entry.
C30_AlignmentEntries ==
    ret.fn = "get_word_alignment" =>
        /\ \A k \in 1..Len(Alignments) :
               /\ WordOfIndex(Alignments[k].transcribed_word,
                              Alignments[k].transcribed_index,
                              request.transcribed_words)
               /\ WordOfIndex(Alignments[k].expected_word,
                              Alignments[k].expected_index,
                              request.expected_words)
        /\ \A i \in 0..(Len(request.transcribed_words) - 1) :
               Cardinality({k \in 1..Len(Alignments) :
                               Alignments[k].transcribed_index = i}) = 1
        /\ \A j \in 0..(Len(request.expected_words) - 1) :
               Cardinality({k \in 1..Len(Alignments) :
                               Alignments[k].expected_index = j}) = 1

====
